---- MODULE Spec2Model ----
(***************************************************************************)
(* textual-reactive: value cells (State / ModelState), reducer bindings,   *)
(* derivations, the @effect registry and the store / reducer-context       *)
(* provider lookup, as state machines.                                     *)
(*                                                                         *)
(* A cell operation (set, update, replace, dispatch) runs to completion on *)
(* the calling thread: the equality gate, the assignment, every watcher    *)
(* (with whatever the watcher itself sets) and the post_message calls are  *)
(* one action.  The variable log holds the events of the last operation in *)
(* the order in which they happened.                                       *)
(***************************************************************************)
EXTENDS Integers, Sequences, FiniteSets, TLC

VARIABLES
    cells,      \* cells[i]: the State objects, in creation order
    msgs,       \* msgs[w]: the StateChanged messages posted to widget w, oldest first
    log,        \* the events of the last operation, in order
    calls,      \* calls[cb]: how often the plain callback cb has been invoked
    provs,      \* provs[w]: what widget w provides (a store or a reducer context) and its cell
    parent,     \* parent[w]: the widget w is attached to, or NoWidget
    registry,   \* the providers that have run on_mount (the _providers dictionaries)
    raised,     \* the exception the last call raised, or ""
    uses,       \* uses[w]: the sequence of hook calls widget w has made
    hist,       \* the actions dispatched so far, oldest first
    nops,       \* how many calls have been made
    last,       \* the last call: its name, cell, candidate value and the value before it
    due,        \* the calls each callback should have received
    dueMsg,     \* the messages each widget should have been posted
    dueEv       \* the change events the dispatches so far should have produced

vars == <<cells, msgs, log, calls, provs, parent, registry, raised, uses, hist, nops, last, due, dueMsg, dueEv>>

(***************************************************************************)
(* Bounds.                                                                 *)
(***************************************************************************)
MaxVal == 1         \* plain values and record fields range over 0..MaxVal
MaxOps == 5         \* calls per behaviour
MaxCells == 4       \* cells a behaviour creates
MaxCount == 3       \* a reducer's counter stays within -MaxCount..MaxCount
MaxDispatch == 4    \* calls on a reducer binding per behaviour
MaxEffectOps == 4   \* calls per behaviour in the mounted tree
MaxLookups == 4     \* lookups and dispatches per behaviour among several providers
MaxResolutions == 1 \* lookups per behaviour while widgets are mounted and removed
MaxWatchOps == 5    \* watch, closure and set calls per behaviour
MaxQueueOps == 5    \* subscribe, unsubscribe, set and delivery steps per behaviour
MaxUpdateOps == 4   \* watch, subscribe and update calls per behaviour

(***************************************************************************)
(* Values.  A Python value is an int, a bool, or a pydantic model of some  *)
(* class with the fields count and tag.                                    *)
(***************************************************************************)
NoFields == [count |-> 0, tag |-> 0]

PyInt(n) == [k |-> "int", cls |-> "", n |-> n, f |-> NoFields]

PyBool(b) == [k |-> "bool", cls |-> "", n |-> IF b THEN 1 ELSE 0, f |-> NoFields]

PyModel(c, fs) == [k |-> "model", cls |-> c, n |-> 0, f |-> fs]

FieldMaps == [count : 0..MaxVal, tag : {0}]

PlainValues == {PyInt(n) : n \in 0..MaxVal} \cup {PyBool(TRUE)}

ModelValues == {PyModel(c, fs) : c \in {"CounterState", "OtherState"}, fs \in FieldMaps}

\* BaseModel.model_dump(): the field map, without the class.
model_dump(v) == v.f

\* Python's == on the values above: numbers compare by number (True == 1),
\* a model never equals a number, models compare by class and fields.
PyEq(a, b) ==
    IF a.k = "model" \/ b.k = "model"
    THEN a.k = b.k /\ a.cls = b.cls /\ a.f = b.f
    ELSE a.n = b.n

\* The test of _set_value that makes a call a no-op.
SameValueIdentity(old, new) == old = new
SameValueNever(old, new) == FALSE
SameValue(old, new) ==
    IF old.k = "model" /\ new.k = "model"
    THEN model_dump(old) = model_dump(new)
    ELSE PyEq(old, new)

(***************************************************************************)
(* Cells, watchers, widgets.                                               *)
(***************************************************************************)
NoName == ""        \* a falsy name: None or the empty string (`if name:`)

Widgets == {"app", "prov", "rprov", "w1", "w2"}

Callbacks == {"cbA", "cbB"}

\* State.__init__ and ModelState.__init__
State(v, name) == [type |-> "State", value |-> v, name |-> name, watchers |-> <<>>, subscribers |-> {}]

ModelState(v, name) == [State(v, name) EXCEPT !.type = "ModelState"]

\* The three kinds of callable found in a watcher list.
Callback(cb) == [kind |-> "cb", cb |-> cb, d |-> 0, src |-> <<>>, sel |-> "", w |-> "", m |-> ""]

Recompute(d, src, sel) == [kind |-> "derive", cb |-> "", d |-> d, src |-> src, sel |-> sel, w |-> "", m |-> ""]

EffectCall(w, m) == [kind |-> "effect", cb |-> "", d |-> 0, src |-> <<>>, sel |-> "", w |-> w, m |-> m]

NoWatcher == [kind |-> "", cb |-> "", d |-> 0, src |-> <<>>, sel |-> "", w |-> "", m |-> ""]

\* Watchers a program writes that call back into the cells:
\*   lambda old, new: s.set(2) if new == 1 else None     (s is cell d)
\*   lambda old, new: other.set(new)                      (other is cell d)
\*   a function that calls the closure watch returned for itself ("self")
\*   or for callback m, while that registration is held.
Reenter(d) == [NoWatcher EXCEPT !.kind = "reenter", !.d = d]

Copy(d) == [NoWatcher EXCEPT !.kind = "copy", !.d = d]

Remover(cb, m) == [NoWatcher EXCEPT !.kind = "remover", !.cb = cb, !.m = m]

\* lambda old, new: raise
Raiser == [NoWatcher EXCEPT !.kind = "raiser"]

Values(cs) == [i \in DOMAIN cs |-> cs[i].value]

\* An event of an operation: what happened (t), on which cell, the watcher
\* called (w) or the widgets posted to (to), the change (old, new, and id, its
\* number within the operation), and the cells' values (env) and the cell's
\* watcher list (ws) at that moment.
Event(t, c, w, to, old, new, id, cs) ==
    [t |-> t, cell |-> c, w |-> w, to |-> to, old |-> old, new |-> new, id |-> id,
     env |-> Values(cs), ws |-> cs[c].watchers]

Message(c, old, new) == [cell |-> c, old |-> old, new |-> new]

Count(P(_), s) == Cardinality({i \in DOMAIN s : P(s[i])})

\* The number of changes committed so far in this operation.
Commits(l) == Cardinality({i \in DOMAIN l : l[i].t = "commit"})

(***************************************************************************)
(* The part of the state a cell operation reads and writes.                *)
(***************************************************************************)
Cur == [cells |-> cells, msgs |-> msgs, log |-> <<>>, calls |-> calls]

Commit(S) ==
    /\ cells' = S.cells
    /\ msgs' = S.msgs
    /\ log' = S.log
    /\ calls' = S.calls

(***************************************************************************)
(* Selectors and updaters: the pure functions a program hands to           *)
(* use_derived and to set.                                                 *)
(***************************************************************************)
Select(sel, args) ==
    CASE sel = "sum" -> PyInt(args[1].n + args[2].n)
      [] sel = "minus" -> PyInt(args[1].n - args[2].n)
      [] sel = "double" -> PyInt(args[1].n * 2)
      [] sel = "succ" -> PyInt(args[1].n + 1)
      [] sel = "is_positive" -> PyBool(args[1].n > 0)
      [] sel = "parity" -> PyInt(args[1].n % 2)
      [] sel = "ratio" -> PyInt(6 \div args[1].n)
      [] sel = "count_of" -> PyInt(args[1].f.count)

Updaters == {"inc", "same", "zero"}

Apply(fn, v) ==
    CASE fn = "inc" -> IF v.k = "model" THEN PyModel(v.cls, [v.f EXCEPT !.count = @ + 1])
                                        ELSE PyInt(v.n + 1)
      [] fn = "same" -> v
      [] fn = "zero" -> IF v.k = "model" THEN PyModel(v.cls, [v.f EXCEPT !.count = 0])
                                         ELSE PyInt(0)

InRange(v) == v.n \in 0..MaxVal /\ v.f.count \in 0..MaxVal

(***************************************************************************)
(* State._set_value and what it calls.                                     *)
(***************************************************************************)
\* list.remove(x): the first element equal to x goes.
RemoveFirst(s, x) ==
    LET i == CHOOSE i \in DOMAIN s : s[i] = x /\ \A j \in 1..(i - 1) : s[j] # x
    IN [j \in 1..(Len(s) - 1) |-> IF j < i THEN s[j] ELSE s[j + 1]]

\* The closure watch returns, called while the callback is registered.
unwatch(cs, c, w) == [cs EXCEPT ![c].watchers = RemoveFirst(@, w)]

RECURSIVE _set_value(_, _, _)
RECURSIVE NotifyWatchers(_, _, _, _, _, _)
RECURSIVE Invoke(_, _, _, _, _, _)

\* Posting that puts the new message in front of the queued ones.
PostMessages_lifo(S, c, old, new, id) ==
    LET subs == S.cells[c].subscribers IN
    IF subs = {} THEN S
    ELSE [S EXCEPT
            !.msgs = [w \in Widgets |->
                        IF w \in subs THEN <<Message(c, old, new)>> \o S.msgs[w]
                                      ELSE S.msgs[w]],
            !.log = Append(@, Event("post", c, NoWatcher, subs, old, new, id, S.cells))]

\* for widget in self._subscribers: widget.post_message(message)
PostMessages(S, c, old, new, id) ==
    LET subs == S.cells[c].subscribers IN
    IF subs = {} THEN S
    ELSE [S EXCEPT
            !.msgs = [w \in Widgets |->
                        IF w \in subs THEN Append(S.msgs[w], Message(c, old, new))
                                      ELSE S.msgs[w]],
            !.log = Append(@, Event("post", c, NoWatcher, subs, old, new, id, S.cells))]

\* What _set_value does once the value is assigned: the watchers, then the messages.
AnnouncePostFirst(S, c, old, new, id) ==
    NotifyWatchers(PostMessages(S, c, old, new, id), c, 1, old, new, id)
Announce(S, c, old, new, id) ==
    PostMessages(NotifyWatchers(S, c, 1, old, new, id), c, old, new, id)

_set_value(S, c, new) ==
    LET old == S.cells[c].value IN
    IF SameValue(old, new) THEN S
    ELSE LET id == Commits(S.log) + 1
             cs == [S.cells EXCEPT ![c].value = new]
             S1 == [S EXCEPT !.cells = cs,
                             !.log = Append(@, Event("commit", c, NoWatcher, {}, old, new, id, cs))]
         IN Announce(S1, c, old, new, id)

\* for watcher in self._watchers: watcher(old_value, new_value), from index i on.
\* The loop reads the list as it is when it reaches each index.
NotifyWatchers(S, c, i, old, new, id) ==
    IF i > Len(S.cells[c].watchers) THEN S
    ELSE NotifyWatchers(Invoke(S, S.cells[c].watchers[i], c, old, new, id), c, i + 1, old, new, id)

\* get_values handing the sources over in the opposite order.
get_values_reversed(S, src) == [j \in DOMAIN src |-> S.cells[src[Len(src) + 1 - j]].value]
\* use_derived.get_values
get_values(S, src) == [j \in DOMAIN src |-> S.cells[src[j]].value]

\* use_derived.on_source_change(old, new): every source is read again.
on_source_change_new_only(S, w, old, new) ==
    _set_value(S, w.d, Select(w.sel, [j \in DOMAIN w.src |-> new]))
on_source_change(S, w, old, new) ==
    LET values == get_values(S, w.src)
        new_computed == Select(w.sel, values)
        S1 == [S EXCEPT !.log = Append(@, Event("select", w.d, w, {}, S.cells[w.d].value,
                                                 new_computed, 0, S.cells))]
    IN _set_value(S1, w.d, new_computed)

\* One call watcher(old, new).
Invoke(S, w, c, old, new, id) ==
    LET S1 == [S EXCEPT !.log = Append(@, Event("call", c, w, {}, old, new, id, S.cells))] IN
    CASE w.kind = "cb" -> [S1 EXCEPT !.calls[w.cb] = @ + 1]
      [] w.kind = "effect" -> S1
      [] w.kind = "derive" -> on_source_change(S1, w, old, new)
      [] w.kind = "reenter" -> IF PyEq(new, PyInt(1)) THEN _set_value(S1, w.d, PyInt(2)) ELSE S1
      [] w.kind = "copy" -> _set_value(S1, w.d, new)
      [] w.kind = "remover" ->
            LET victim == IF w.m = "self" THEN w ELSE Callback(w.m) IN
            IF \E i \in DOMAIN S1.cells[c].watchers : S1.cells[c].watchers[i] = victim
            THEN [S1 EXCEPT !.cells = unwatch(S1.cells, c, victim)]
            ELSE S1

\* State.set with a value that is not callable, and with an updater.
set(S, c, v) == _set_value(S, c, v)

\* A set that hands the updater the value the cell was created with.
set_with_initial(S, c, fn) == _set_value(S, c, Apply(fn, PyInt(0)))
set_with(S, c, fn) == _set_value(S, c, Apply(fn, S.cells[c].value))

\* ModelState.update(**kwargs): model_copy(update=kwargs), then _set_value.
model_copy(v, kwargs) ==
    PyModel(v.cls, [x \in DOMAIN v.f |-> IF x \in DOMAIN kwargs THEN kwargs[x] ELSE v.f[x]])

\* An update that builds the new record from the model's defaults.
update_from_defaults(S, c, kwargs) ==
    _set_value(S, c, model_copy(PyModel(S.cells[c].value.cls, NoFields), kwargs))

update(S, c, kwargs) == _set_value(S, c, model_copy(S.cells[c].value, kwargs))

\* ModelContextHandle.update(**kwargs): model_copy(update=kwargs), then State.set.
ModelContextHandle_update(S, c, kwargs) == set(S, c, model_copy(S.cells[c].value, kwargs))

\* ModelState.replace
replace(S, c, m) == _set_value(S, c, m)

\* An unsubscribe that forgets nothing.
unsubscribe_ignored(cs, c, w) == cs

\* An unsubscribe that also takes the widget's effect methods off the watcher list.
unsubscribe_unbinding(cs, c, w) ==
    [cs EXCEPT ![c].subscribers = @ \ {w},
               ![c].watchers = SelectSeq(@, LAMBDA x : x.w # w)]

\* State.subscribe / State.unsubscribe: a WeakSet, so adding twice adds once.
subscribe(cs, c, w) == [cs EXCEPT ![c].subscribers = @ \cup {w}]

unsubscribe(cs, c, w) == [cs EXCEPT ![c].subscribers = @ \ {w}]

\* State.watch
watch(cs, c, w) == [cs EXCEPT ![c].watchers = Append(@, w)]

(***************************************************************************)
(* The @effect registry.  A widget class declares attributes; an attribute *)
(* decorated with @effect carries its targets, each a state name or a      *)
(* Store object.  A class inherits the attributes of its base.             *)
(***************************************************************************)
NameTarget(n) == [t |-> "name", v |-> n]

StoreTarget(s) == [t |-> "store", v |-> s]

Classes == {"Static", "Base", "Counter"}

BaseOf(cls) == IF cls = "Counter" THEN "Base" ELSE ""

\* The attributes a class body declares.
Declares(cls) ==
    CASE cls = "Static" -> {"render"}
      [] cls = "Base" -> {"on_base", "render"}
      [] cls = "Counter" -> {"_on_private", "on_count", "on_either", "on_store"}

\* EffectRegistration.targets of the function an attribute of a class body
\* is; the empty list stands for an attribute without a registration.
DeclaredTargets(cls, a) ==
    CASE cls = "Base" /\ a = "on_base" -> <<NameTarget("count")>>
      [] cls = "Counter" /\ a = "on_count" -> <<NameTarget("count")>>
      [] cls = "Counter" /\ a = "on_either" -> <<NameTarget("count"), NameTarget("name")>>
      [] cls = "Counter" /\ a = "_on_private" -> <<NameTarget("count"), StoreTarget("S1")>>
      [] cls = "Counter" /\ a = "on_store" -> <<StoreTarget("S1")>>
      [] OTHER -> <<>>

ClassOf(w) ==
    CASE w = "w1" -> "Counter"
      [] w = "w2" -> "Base"
      [] OTHER -> "Static"

\* All attribute names, in the order dir() lists them (sorted).
AttrOrder == <<"_on_private", "on_base", "on_count", "on_either", "on_store", "render">>

RECURSIVE Mro(_)
\* type(widget).__mro__, without object
Mro(cls) == IF cls = "" THEN <<>> ELSE <<cls>> \o Mro(BaseOf(cls))

\* dir(type(widget)): the names declared anywhere along the MRO, sorted.
dir(cls) == SelectSeq(AttrOrder, LAMBDA a : \E i \in DOMAIN Mro(cls) : a \in Declares(Mro(cls)[i]))

\* getattr(type(widget), attr_name), then get_effect_registration: the targets
\* of the first class along the MRO that declares the attribute.
get_effect_registration(cls, a) ==
    LET mro == Mro(cls)
        i == CHOOSE i \in DOMAIN mro :
                a \in Declares(mro[i]) /\ \A j \in 1..(i - 1) : a \notin Declares(mro[j])
    IN DeclaredTargets(mro[i], a)

\* A test that lets every attribute name through.
startswith_underscore_never(a) == FALSE
\* attr_name.startswith("_")
startswith_underscore(a) == a \in {"_on_private"}

InSeq(x, s) == \E i \in DOMAIN s : s[i] = x

RECURSIVE connect_loop(_, _, _, _, _, _)
\* The loop of connect_effects and of connect_store_effects over the names
\* from index i on: every public attribute with a registration that lists
\* the target gets a watcher on the cell.
connect_loop(cs, w, target, c, names, i) ==
    IF i > Len(names) THEN cs
    ELSE LET a == names[i]
             bind == /\ ~startswith_underscore(a)
                     /\ InSeq(target, get_effect_registration(ClassOf(w), a))
         IN connect_loop(IF bind THEN watch(cs, c, EffectCall(w, a)) ELSE cs,
                         w, target, c, names, i + 1)

RECURSIVE connect_every(_, _, _, _)
\* Binding by name alone: to every cell from index k on that has the name.
connect_every(cs, w, state_name, k) ==
    IF k > Len(cs) THEN cs
    ELSE connect_every(IF cs[k].name = state_name
                       THEN connect_loop(cs, w, NameTarget(state_name), k, dir(ClassOf(w)), 1)
                       ELSE cs,
                       w, state_name, k + 1)

connect_effects_by_name(cs, w, state_name, c) == connect_every(cs, w, state_name, 1)
connect_effects(cs, w, state_name, c) ==
    connect_loop(cs, w, NameTarget(state_name), c, dir(ClassOf(w)), 1)

connect_store_effects(cs, w, store, c) ==
    connect_loop(cs, w, StoreTarget(store), c, dir(ClassOf(w)), 1)

(***************************************************************************)
(* The hooks.  Each returns the cells with the new cell appended; the new  *)
(* cell's index is the handle.                                             *)
(***************************************************************************)
NewCell(cs) == Len(cs) + 1

\* use_state and use_reducer: State(initial_value, name=name), subscribe, effects.
use_state(cs, w, v, name) ==
    LET c == NewCell(cs)
        cs1 == subscribe(Append(cs, State(v, name)), c, w)
    IN IF name # NoName THEN connect_effects(cs1, w, name, c) ELSE cs1

use_reducer(cs, w, v, name) == use_state(cs, w, v, name)

\* use_model_state and use_model_reducer: the same with a ModelState.
use_model_state(cs, w, v, name) ==
    LET c == NewCell(cs)
        cs1 == subscribe(Append(cs, ModelState(v, name)), c, w)
    IN IF name # NoName THEN connect_effects(cs1, w, name, c) ELSE cs1

use_model_reducer(cs, w, v, name) == use_model_state(cs, w, v, name)

RECURSIVE watch_sources(_, _, _, _)
\* for src in sources: src.state.watch(on_source_change)
watch_sources(cs, src, w, j) ==
    IF j > Len(src) THEN cs
    ELSE watch_sources(watch(cs, src[j], w), src, w, j + 1)

\* use_derived(widget, sources, selector, name=name)
use_derived(cs, w, src, sel, name) ==
    LET c == NewCell(cs)
        initial_computed == Select(sel, [j \in DOMAIN src |-> cs[src[j]].value])
        cs1 == subscribe(Append(cs, State(initial_computed, name)), c, w)
        cs2 == watch_sources(cs1, src, Recompute(c, src, sel), 1)
    IN IF name # NoName THEN connect_effects(cs2, w, name, c) ELSE cs2

(***************************************************************************)
(* Reducers of the test suite, and the three dispatch closures.            *)
(***************************************************************************)
Actions == {"Increment", "Decrement", "Reset", "Unknown"}

\* tests/test_hooks.py counter_reducer, on an int, with amount = 1.
counter_reducer(state, action) ==
    CASE action = "Increment" -> PyInt(state.n + 1)
      [] action = "Decrement" -> PyInt(state.n - 1)
      [] action = "Reset" -> PyInt(0)
      [] OTHER -> state

\* tests/test_hooks.py model_counter_reducer, on a model, with amount = 1.
model_counter_reducer(state, action) ==
    CASE action = "Increment" -> model_copy(state, [c \in {"count"} |-> state.f.count + 1])
      [] action = "Decrement" -> model_copy(state, [c \in {"count"} |-> state.f.count - 1])
      [] action = "Reset" -> PyModel(state.cls, NoFields)
      [] OTHER -> state

\* The reducer a binding was given: the one that fits its initial value.
reducer(state, action) ==
    IF state.k = "model" THEN model_counter_reducer(state, action)
    ELSE counter_reducer(state, action)

Bindings == {"use_reducer", "use_model_reducer", "StoreProvider"}

\* dispatch with the value captured when the binding was made.
dispatch_captured(S, binding, c, action) ==
    LET captured == IF hist = <<>> THEN S.cells[c].value ELSE hist[1].before IN
    IF binding = "use_model_reducer" THEN replace(S, c, reducer(captured, action))
    ELSE set(S, c, reducer(captured, action))
\* use_reducer.dispatch, use_model_reducer.dispatch, StoreProvider.__init__.dispatch
dispatch(S, binding, c, action) ==
    LET new_value == reducer(S.cells[c].value, action) IN
    CASE binding = "use_reducer" -> set(S, c, new_value)
      [] binding = "use_model_reducer" -> replace(S, c, new_value)
      [] binding = "StoreProvider" -> set(S, c, new_value)

\* An updater, or an action, for which the function handed to set, or the
\* reducer, raises.
Raising == "boom"

Ran(S, exc) == [S |-> S, raised |-> exc]

\* A set that clears the cell before it calls the updater.
set_or_raise_cleared(S, c, fn) ==
    IF fn = Raising THEN Ran(set(S, c, PyInt(0)), "Error") ELSE Ran(set_with(S, c, fn), "")

\* State.set(value) with a callable: value(self._value) is evaluated, and may
\* raise, before _set_value is called.
set_or_raise(S, c, fn) ==
    IF fn = Raising THEN Ran(S, "Error") ELSE Ran(set_with(S, c, fn), "")

\* dispatch: reducer(current, action) is evaluated, and may raise, before
\* state.set is called.
dispatch_or_raise(S, binding, c, action) ==
    IF action = Raising THEN Ran(S, "Error") ELSE Ran(dispatch(S, binding, c, action), "")

(***************************************************************************)
(* Providers.  The widget tree is fixed: app, below it the StoreProvider   *)
(* prov, below it the ReducerProvider rprov, below it w1 and w2.  provs    *)
(* gives, for a widget that is a provider, the store or context it         *)
(* provides and the cell it holds.                                         *)
(***************************************************************************)
NoWidget == ""

Parent == [app |-> NoWidget, prov |-> "app", rprov |-> "prov", w1 |-> "rprov", w2 |-> "rprov"]

\* A StoreProvider that wraps the last cell made before it instead of making
\* its own.
StoreProvider_wrapping(cs, initial, name) == cs

\* A StoreProvider that takes the cell an earlier mount made for a store of
\* this name instead of making its own.
StoreProvider_shared(cs, initial, name) ==
    IF \E c \in DOMAIN cs : cs[c].type = "ModelState" /\ cs[c].name = name THEN cs
    ELSE Append(cs, ModelState(initial, name))

\* StoreProvider.__init__: a ModelState for a model, a State otherwise, named
\* as the store.
StoreProvider(cs, initial, name) ==
    Append(cs, IF initial.k = "model" THEN ModelState(initial, name) ELSE State(initial, name))

Provider(kind, key, c) == [kind |-> kind, key |-> key, cell |-> c]

\* ReducerProvider.__init__(reactive_context, reducer_handle): the provider
\* keeps the handle it is given; it makes no State.
ReducerProvider(ps, p, reactive_context, reducer_handle) ==
    [ps EXCEPT ![p] = Provider("ReducerProvider", reactive_context, reducer_handle)]

\* A lookup that takes any provider of the kind and key, wherever it is.
_find_provider_anywhere(ps, tree, current, kind, key) ==
    IF \E p \in DOMAIN ps : ps[p].kind = kind /\ ps[p].key = key
    THEN CHOOSE p \in DOMAIN ps : ps[p].kind = kind /\ ps[p].key = key
    ELSE NoWidget

RECURSIVE _find_provider(_, _, _, _, _)
\* Store._find_provider and reducer_context._find_provider: from the widget
\* itself upwards, the first provider of this kind for this store or context.
_find_provider(ps, tree, current, kind, key) ==
    IF current = NoWidget THEN NoWidget
    ELSE IF ps[current].kind = kind /\ ps[current].key = key THEN current
    ELSE _find_provider(ps, tree, tree[current], kind, key)

\* A Store.use that takes subscribe=False to mean no effects either.
Store_use_unbound(cs, ps, tree, w, store, sub) ==
    LET provider == _find_provider(ps, tree, w, "StoreProvider", store) IN
    IF provider = NoWidget \/ ~sub THEN cs
    ELSE connect_store_effects(subscribe(cs, ps[provider].cell, w), w, store, ps[provider].cell)
\* Store.use(widget, subscribe=sub); without a provider it raises.
Store_use(cs, ps, tree, w, store, sub) ==
    LET provider == _find_provider(ps, tree, w, "StoreProvider", store) IN
    IF provider = NoWidget THEN cs
    ELSE LET c == ps[provider].cell
             cs1 == IF sub THEN subscribe(cs, c, w) ELSE cs
         IN connect_store_effects(cs1, w, store, c)

\* use_reducer_context(widget, context, subscribe=sub); without a provider it raises.
use_reducer_context(cs, ps, tree, w, context, sub) ==
    LET provider == _find_provider(ps, tree, w, "ReducerProvider", context) IN
    IF provider = NoWidget THEN cs
    ELSE LET c == ps[provider].cell
             cs1 == IF sub THEN subscribe(cs, c, w) ELSE cs
         IN IF cs[c].name # NoName THEN connect_effects(cs1, w, cs[c].name, c) ELSE cs1

(***************************************************************************)
(* Contexts.  C1 is a Context of an int, MC1 a ModelContext.               *)
(***************************************************************************)
Contexts == {"C1", "MC1"}

isinstance_ModelContext(context) == context = "MC1"

\* Context.default_value and Context.name
default_value(context) ==
    IF isinstance_ModelContext(context) THEN PyModel("CounterState", NoFields) ELSE PyInt(0)

ContextName(context) == IF isinstance_ModelContext(context) THEN "theme" ELSE "count"

\* What a constructor or a lookup gives back: the cells and providers after
\* it, the exception it raised (or ""), and the handle it returned.
NoHandle == [cell |-> 0, is_default |-> FALSE]

Outcome(cs, ps, exc, handle) == [cells |-> cs, provs |-> ps, raised |-> exc, handle |-> handle]

\* ContextProvider.__init__(reactive_context, value): the State is to be
\* named context.name, and no name `context` is in scope, so the constructor
\* raises NameError before the provider has a cell.
ContextProvider(cs, ps, p, reactive_context, value) == Outcome(cs, ps, "NameError", NoHandle)

\* ContextHandle.__init__ assigns self._rx_context, which is not one of the
\* class's __slots__: AttributeError.  ModelContextHandle, a subclass without
\* __slots__, has a __dict__ and takes the attribute.
ContextHandle(context) == IF isinstance_ModelContext(context) THEN "" ELSE "AttributeError"

\* A use_context that makes and subscribes the local State before it looks
\* at `required`.
use_context_default_first(cs, ps, tree, w, context, sub, required) ==
    LET c == NewCell(cs)
        cs1 == Append(cs, State(default_value(context), ContextName(context)))
    IN IF required THEN Outcome(subscribe(cs1, c, w), ps, "ContextNotFoundError", NoHandle)
       ELSE Outcome(cs, ps, ContextHandle(context), NoHandle)

\* use_context(widget, context, subscribe=sub, required=required)
use_context(cs, ps, tree, w, context, sub, required) ==
    LET provider == _find_provider(ps, tree, w, "ContextProvider", context)
        is_default == provider = NoWidget
        c == IF is_default THEN NewCell(cs) ELSE ps[provider].cell
        cs1 == IF is_default THEN Append(cs, State(default_value(context), ContextName(context))) ELSE cs
        cs2 == IF sub THEN subscribe(cs1, c, w) ELSE cs1
    IN IF is_default /\ required THEN Outcome(cs, ps, "ContextNotFoundError", NoHandle)
       ELSE IF ContextHandle(context) # ""
            \* the local State made for the default goes with the failed call
            THEN Outcome(IF is_default THEN cs ELSE cs2, ps, ContextHandle(context), NoHandle)
            ELSE Outcome(cs2, ps, "", [cell |-> c, is_default |-> is_default])

(***************************************************************************)
(* What the claims compare the program with.                               *)
(***************************************************************************)
\* Equality as the specification words it: == for plain values, equality of
\* the field maps for records.
Equals(a, b) ==
    IF a.k = "model" /\ b.k = "model" THEN a.f = b.f
    ELSE a.k # "model" /\ b.k # "model" /\ a.n = b.n

Registrations(cs, c, w) == Cardinality({i \in DOMAIN cs[c].watchers : cs[c].watchers[i] = w})

Call(op, c, cand) == [op |-> op, cell |-> c, cand |-> cand, prev |-> cells[c].value]

NoProvider == [kind |-> "", key |-> "", cell |-> 0]

\* What a widget has called, in order: the hook and the cell it was given.
Hook(h, c) == [hook |-> h, cell |-> c]

NoCall == [op |-> "", cell |-> 0, cand |-> PyInt(0), prev |-> PyInt(0)]

\* The bookkeeping of one set/update/replace call on cell c with candidate cand.
Expect(op, c, cand) ==
    LET accepted == ~Equals(cells[c].value, cand) IN
    /\ nops' = nops + 1
    /\ last' = Call(op, c, cand)
    /\ due' = [cb \in Callbacks |->
                 due[cb] + (IF accepted THEN Registrations(cells, c, Callback(cb)) ELSE 0)]
    /\ dueMsg' = [w \in Widgets |->
                    dueMsg[w] + (IF accepted /\ w \in cells[c].subscribers THEN 1 ELSE 0)]

Idle == /\ nops < MaxOps
        /\ nops' = nops + 1
        /\ log' = <<>>
        /\ last' = NoCall
        /\ UNCHANGED <<msgs, calls, provs, parent, registry, raised, hist, due, dueMsg, dueEv>>

NoProviders == [w \in Widgets |-> NoProvider]

NoUses == [w \in Widgets |-> <<>>]

InitRest ==
    /\ registry = {}
    /\ raised = ""
    /\ msgs = [w \in Widgets |-> <<>>]
    /\ log = <<>>
    /\ calls = [cb \in Callbacks |-> 0]
    /\ hist = <<>>
    /\ nops = 0
    /\ last = NoCall
    /\ due = [cb \in Callbacks |-> 0]
    /\ dueMsg = [w \in Widgets |-> 0]
    /\ dueEv = 0

(***************************************************************************)
(* Spec: one cell, a State holding a number or a ModelState holding a      *)
(* record, with callbacks registered by watch and widgets subscribed.      *)
(***************************************************************************)
Init ==
    /\ cells \in {<<State(PyInt(0), NoName)>>,
                  <<ModelState(PyModel("CounterState", [count |-> 0, tag |-> 0]), NoName)>>}
    /\ provs = NoProviders
    /\ parent = Parent
    /\ uses = NoUses
    /\ InitRest

Candidates(c) == IF cells[c].value.k = "model" THEN ModelValues ELSE PlainValues

Kwargs == [{"count"} -> 0..MaxVal] \cup [{"tag"} -> {0}] \cup [{"count", "tag"} -> {0}]

Watch(c, cb) ==
    /\ cells' = watch(cells, c, Callback(cb))
    /\ Idle
    /\ UNCHANGED uses

Unwatch(c, cb) ==
    /\ \E i \in DOMAIN cells[c].watchers : cells[c].watchers[i] = Callback(cb)
    /\ cells' = unwatch(cells, c, Callback(cb))
    /\ Idle
    /\ UNCHANGED uses

Subscribe(c, w) ==
    /\ cells' = subscribe(cells, c, w)
    /\ uses' = [uses EXCEPT ![w] = Append(@, Hook("subscribe", c))]
    /\ Idle

Unsubscribe(c, w) ==
    /\ cells' = unsubscribe(cells, c, w)
    /\ uses' = [uses EXCEPT ![w] = Append(@, Hook("unsubscribe", c))]
    /\ Idle

Set(c, v) ==
    /\ nops < MaxOps
    /\ Commit(set(Cur, c, v))
    /\ Expect("set", c, v)
    /\ UNCHANGED <<provs, parent, registry, raised, uses, hist, dueEv>>

SetWith(c, fn) ==
    /\ nops < MaxOps
    /\ InRange(Apply(fn, cells[c].value))
    /\ Commit(set_with(Cur, c, fn))
    /\ Expect("set", c, Apply(fn, cells[c].value))
    /\ UNCHANGED <<provs, parent, registry, raised, uses, hist, dueEv>>

Update(c, kwargs) ==
    /\ nops < MaxOps
    /\ cells[c].type = "ModelState"
    /\ Commit(update(Cur, c, kwargs))
    /\ Expect("update", c, PyModel(cells[c].value.cls,
                                   [x \in {"count", "tag"} |->
                                      IF x \in DOMAIN kwargs THEN kwargs[x]
                                      ELSE cells[c].value.f[x]]))
    /\ UNCHANGED <<provs, parent, registry, raised, uses, hist, dueEv>>

Replace(c, m) ==
    /\ nops < MaxOps
    /\ cells[c].type = "ModelState"
    /\ Commit(replace(Cur, c, m))
    /\ Expect("replace", c, m)
    /\ UNCHANGED <<provs, parent, registry, raised, uses, hist, dueEv>>

Next ==
    \/ \E c \in DOMAIN cells, cb \in Callbacks : Watch(c, cb)
    \/ \E c \in DOMAIN cells, cb \in Callbacks : Unwatch(c, cb)
    \/ \E c \in DOMAIN cells, w \in {"w1", "w2"} : Subscribe(c, w)
    \/ \E c \in DOMAIN cells, w \in {"w1", "w2"} : Unsubscribe(c, w)
    \/ \E c \in DOMAIN cells : \E v \in Candidates(c) : Set(c, v)
    \/ \E c \in DOMAIN cells, fn \in Updaters : SetWith(c, fn)
    \/ \E c \in DOMAIN cells, kwargs \in Kwargs : Update(c, kwargs)
    \/ \E c \in DOMAIN cells, m \in ModelValues : Replace(c, m)

Spec == Init /\ [][Next]_vars

(***************************************************************************)
(* C1.  No-op law: a set (with a value or an updater), update or replace   *)
(* whose candidate equals the current value leaves the cell as it is,      *)
(* calls no watcher and posts no message.                                  *)
(***************************************************************************)
NoOpLaw ==
    [][(last'.op # "" /\ Equals(cells[last'.cell].value, last'.cand))
          => /\ cells' = cells
             /\ msgs' = msgs
             /\ calls' = calls
             /\ log' = <<>>]_vars

\* A no-op call with a candidate that is equal to, but not the same as, the
\* value of a cell that has a watcher and a subscriber.
NoOpLawWitness ==
    /\ last.op \in {"set", "update", "replace"}
    /\ Equals(last.prev, last.cand)
    /\ last.prev # last.cand
    /\ cells[last.cell].watchers # <<>>
    /\ cells[last.cell].subscribers # {}

(***************************************************************************)
(* C2.  An accepted change calls every watcher registered at that moment   *)
(* with (old, new), in registration order, and all of them before the      *)
(* first message of that change is posted.                                 *)
(***************************************************************************)
CallsOf(id) == SelectSeq(log, LAMBDA e : e.t = "call" /\ e.id = id)

InitDerived ==
    /\ cells = <<>>
    /\ provs = NoProviders
    /\ parent = Parent
    /\ uses = NoUses
    /\ InitRest

Sources == {<<a>> : a \in DOMAIN cells} \cup {<<a, b>> : a, b \in DOMAIN cells}

Selectors(src) == IF Len(src) = 1 THEN {"succ", "is_positive"} ELSE {"minus"}

Create(w, h, cs) ==
    /\ nops < MaxOps
    /\ Len(cells) < MaxCells
    /\ cells' = cs
    /\ uses' = [uses EXCEPT ![w] = Append(@, Hook(h, NewCell(cells)))]
    /\ nops' = nops + 1
    /\ log' = <<>>
    /\ last' = NoCall
    /\ UNCHANGED <<msgs, calls, provs, parent, registry, raised, hist, due, dueMsg, dueEv>>

DUseState == Create("w1", "use_state", use_state(cells, "w1", PyInt(0), NoName))

DUseDerived(src, sel) == Create("w1", "use_derived", use_derived(cells, "w1", src, sel, "count"))

Created(w, h) == {uses[w][i].cell : i \in {i \in DOMAIN uses[w] : uses[w][i].hook = h}}

DSet(c, v) ==
    /\ nops < MaxOps
    /\ c \in Created("w1", "use_state")
    /\ Commit(set(Cur, c, v))
    /\ nops' = nops + 1
    /\ last' = Call("set", c, v)
    /\ UNCHANGED <<provs, parent, registry, raised, uses, hist, due, dueMsg, dueEv>>

NextDerived ==
    \/ DUseState
    \/ \E src \in Sources : \E sel \in Selectors(src) : DUseDerived(src, sel)
    \/ \E c \in DOMAIN cells, v \in PlainValues : DSet(c, v)

SpecDerived == InitDerived /\ [][NextDerived]_vars

(***************************************************************************)
(* C4.  When a set returns, every derivation holds its selector applied to *)
(* its sources' values, and a derivation announces a change (to its        *)
(* watchers, effects and subscribers) for a recomputation exactly when the *)
(* recomputed value differs from the value it held.                        *)
(***************************************************************************)
Derivations(cs) ==
    UNION {{cs[c].watchers[i] : i \in {k \in DOMAIN cs[c].watchers : cs[c].watchers[k].kind = "derive"}} :
           c \in DOMAIN cs}

Recomputed(w, env) == Select(w.sel, [j \in DOMAIN w.src |-> env[w.src[j]]])

Announced(i) ==
    LET e == log[i] IN
    /\ [j \in DOMAIN CallsOf(e.id) |-> CallsOf(e.id)[j].w] = cells[e.cell].watchers
    /\ cells[e.cell].subscribers # {} =>
          \E q \in DOMAIN log : /\ log[q].t = "post" /\ log[q].id = e.id /\ log[q].cell = e.cell
                                /\ log[q].to = cells[e.cell].subscribers
                                /\ log[q].old = e.old /\ log[q].new = e.new

DerivedFollowsSources ==
    /\ \A w \in Derivations(cells) : Equals(cells[w.d].value, Recomputed(w, Values(cells)))
    /\ \A i \in DOMAIN log :
        /\ log[i].t = "select" =>
              LET e == log[i]
                  r == Recomputed(e.w, e.env)
                  follows == i < Len(log) /\ log[i + 1].t = "commit" /\ log[i + 1].cell = e.cell
              IN IF Equals(r, e.env[e.cell])
                 THEN ~follows
                 ELSE /\ follows
                      /\ log[i + 1].old = e.env[e.cell]
                      /\ log[i + 1].new = r
                      /\ Announced(i + 1)
        /\ (log[i].t \in {"commit", "call", "post"} /\ log[i].cell \in Created("w1", "use_derived")) =>
              \E p \in 1..(i - 1) :
                  /\ log[p].t = "select"
                  /\ log[p].cell = log[i].cell
                  /\ ~Equals(Recomputed(log[p].w, log[p].env), log[p].old)

\* A derivation of two different sources that was recomputed twice in an
\* operation chain: once to a different value, which it announced, and a set
\* that left its value as it was.
DerivedFollowsSourcesWitness ==
    /\ \E w \in Derivations(cells) :
          /\ Len(w.src) = 2
          /\ w.src[1] # w.src[2]
          /\ \E i \in DOMAIN log : log[i].t = "select" /\ log[i].w = w /\ Equals(log[i].old, log[i].new)
          /\ cells[w.d].value # Select(w.sel, <<PyInt(0), PyInt(0)>>)
    /\ last.op = "set"
    /\ ~Equals(last.prev, last.cand)

(***************************************************************************)
(* C5.  Whenever a derivation's selector is applied, and whenever a        *)
(* derivation takes a new value, each of its sources that is itself a      *)
(* derivation holds the value its own sources give it, and so on upstream. *)
(***************************************************************************)
RECURSIVE Settled(_, _, _)
Settled(c, env, ds) ==
    \A w \in ds : w.d = c =>
        /\ Equals(env[c], Recomputed(w, env))
        /\ \A j \in DOMAIN w.src : Settled(w.src[j], env, ds)

DerivedSeesSettledSources ==
    \A i \in DOMAIN log :
        (log[i].t = "select" \/ (log[i].t = "commit" /\ log[i].cell \in Created("w1", "use_derived"))) =>
            \A w \in Derivations(cells) : w.d = log[i].cell =>
                \A j \in DOMAIN w.src : Settled(w.src[j], log[i].env, Derivations(cells))

(***************************************************************************)
(* SpecReducer: one reducer binding, made by w1 with use_reducer or        *)
(* use_model_reducer, or by a StoreProvider that w1 consumes; callback cbA *)
(* watches its cell.  The behaviour dispatches actions and sets the cell   *)
(* directly.  hist records the calls with the value each found.            *)
(***************************************************************************)
Made(binding, initial, ps) ==
    CASE binding = "use_reducer" -> use_reducer(<<>>, "w1", initial, "count")
      [] binding = "use_model_reducer" -> use_model_reducer(<<>>, "w1", initial, "count")
      [] binding = "StoreProvider" -> Store_use(StoreProvider(<<>>, initial, "count"), ps, Parent, "w1", "S1", TRUE)

InitReducer ==
    /\ InitRest
    /\ parent = Parent
    /\ \E binding \in Bindings :
       \E initial \in {PyInt(0), PyModel("CounterState", NoFields)} :
          /\ binding = "use_model_reducer" => initial.k = "model"
          /\ provs = IF binding = "StoreProvider"
                     THEN [NoProviders EXCEPT !["prov"] = Provider("StoreProvider", "S1", 1)]
                     ELSE NoProviders
          /\ cells = watch(Made(binding, initial, provs), 1, Callback("cbA"))
          /\ uses = [NoUses EXCEPT !["w1"] = <<Hook(IF binding = "StoreProvider" THEN "Store.use" ELSE binding, 1)>>]

\* The binding that dispatches to cell c.
BindingOf(c) ==
    IF \E w \in Widgets : provs[w] = Provider("StoreProvider", "S1", c) THEN "StoreProvider"
    ELSE CHOOSE b \in Bindings : \E w \in Widgets : InSeq(Hook(b, c), uses[w])

CountOf(v) == IF v.k = "model" THEN v.f.count ELSE v.n

Step(op, action, v, new) ==
    /\ Len(hist) < MaxDispatch
    /\ CountOf(new) \in (0 - MaxCount)..MaxCount
    /\ nops' = nops + 1
    /\ last' = Call(op, 1, new)
    /\ hist' = Append(hist, [action |-> action, v |-> v, before |-> cells[1].value])
    /\ dueEv' = dueEv + (IF Equals(new, cells[1].value) THEN 0 ELSE 1)
    /\ UNCHANGED <<provs, parent, registry, raised, uses, due, dueMsg>>

RDispatch(action) ==
    /\ Commit(dispatch(Cur, BindingOf(1), 1, action))
    /\ Step("dispatch", action, PyInt(0), reducer(cells[1].value, action))

RSet(v) ==
    /\ Commit(set(Cur, 1, v))
    /\ Step("set", "", v, v)

NextReducer ==
    \/ \E action \in Actions : RDispatch(action)
    \/ \E v \in Candidates(1) : RSet(v)

SpecReducer == InitReducer /\ [][NextReducer]_vars

(***************************************************************************)
(* C6.  After each dispatch the cell holds the transition of the value the *)
(* dispatch found and the action, so the value is the calls replayed from  *)
(* the initial value; the old value a change hands on is the value the     *)
(* call found.                                                             *)
(***************************************************************************)
RECURSIVE Replay(_, _)
Replay(h, n) ==
    IF n = 0 THEN h[1].before
    ELSE IF h[n].action = "" THEN h[n].v
         ELSE reducer(Replay(h, n - 1), h[n].action)

DispatchIsTransition ==
    hist # <<>> =>
        LET h == hist[Len(hist)] IN
        /\ h.action # "" => Equals(cells[1].value, reducer(h.before, h.action))
        /\ Equals(cells[1].value, Replay(hist, Len(hist)))
        /\ \A i \in DOMAIN log : log[i].t = "commit" => log[i].old = h.before

\* Two dispatches in a row, the second from a value that differs from the initial one.
DispatchIsTransitionWitness ==
    /\ Len(hist) >= 2
    /\ \A i \in DOMAIN hist : hist[i].action # ""
    /\ ~Equals(hist[Len(hist)].before, hist[1].before)
    /\ ~Equals(cells[1].value, reducer(hist[1].before, hist[Len(hist)].action))
    /\ Commits(log) = 1

(***************************************************************************)
(* C7.  The watcher has been called, and the subscriber sent a message,    *)
(* once for each call whose result differs from the value it found, and an *)
(* unrecognized action produces nothing.  From count 0, Increment three    *)
(* times and Reset end at count 0 with 4 notifications.                    *)
(***************************************************************************)
ActionsOf(h) == [i \in DOMAIN h |-> h[i].action]

DispatchIsGated ==
    /\ calls["cbA"] = dueEv
    /\ Len(msgs["w1"]) = dueEv
    /\ (hist # <<>> /\ hist[Len(hist)].action = "Unknown") => log = <<>>
    /\ (hist # <<>> /\ hist[Len(hist)].action # "" /\ Equals(cells[1].value, hist[Len(hist)].before))
          => log = <<>>
    /\ ActionsOf(hist) = <<"Increment", "Increment", "Increment", "Reset">> =>
          /\ CountOf(cells[1].value) = 0
          /\ calls["cbA"] = 4
          /\ Len(msgs["w1"]) = 4

DispatchIsGatedWitness ==
    /\ ActionsOf(hist) = <<"Increment", "Increment", "Increment", "Reset">>
    /\ cells[1].value = PyModel("CounterState", NoFields)
    /\ calls["cbA"] = 4

(***************************************************************************)
(* SpecEffects: the mounted tree.  prov provides store S1 (a model named   *)
(* "count"); app made a reducer named "count" with use_reducer and rprov   *)
(* provides it as context RC1.  w1 (a Counter, whose base is Base) and w2  *)
(* (a Base) create named cells with use_state and consume the store and    *)
(* the context; cells are set and the two bindings dispatched to.          *)
(***************************************************************************)
InitEffects ==
    /\ InitRest
    /\ cells = use_reducer(StoreProvider(<<>>, PyModel("CounterState", NoFields), "count"),
                           "app", PyInt(0), "count")
    /\ parent = Parent
    /\ provs = [NoProviders EXCEPT !["prov"] = Provider("StoreProvider", "S1", 1),
                                   !["rprov"] = Provider("ReducerProvider", "RC1", 2)]
    /\ uses = [NoUses EXCEPT !["app"] = <<Hook("use_reducer", 2)>>]

Consumers == {"w1", "w2"}

Names == {NoName, "count", "name"}

EUseState(w, name) ==
    /\ nops < MaxEffectOps
    /\ Create(w, "use_state", use_state(cells, w, PyInt(0), name))

Consume(w, h, provider, cs) ==
    /\ nops < MaxEffectOps
    /\ provider # NoWidget
    /\ cells' = cs
    /\ uses' = [uses EXCEPT ![w] = Append(@, Hook(h, provs[provider].cell))]
    /\ Idle

EStoreUse(w) ==
    Consume(w, "Store.use", _find_provider(provs, parent, w, "StoreProvider", "S1"),
            Store_use(cells, provs, parent, w, "S1", TRUE))

EUseReducerContext(w) ==
    Consume(w, "use_reducer_context", _find_provider(provs, parent, w, "ReducerProvider", "RC1"),
            use_reducer_context(cells, provs, parent, w, "RC1", TRUE))

ESet(c, v) ==
    /\ nops < MaxEffectOps
    /\ \E w \in Consumers : c \in Created(w, "use_state")
    /\ Commit(set(Cur, c, v))
    /\ nops' = nops + 1
    /\ last' = Call("set", c, v)
    /\ UNCHANGED <<provs, parent, registry, raised, uses, hist, due, dueMsg, dueEv>>

EDispatch(c, action) ==
    /\ nops < MaxEffectOps
    /\ CountOf(reducer(cells[c].value, action)) \in 0..MaxCount
    /\ Commit(dispatch(Cur, BindingOf(c), c, action))
    /\ nops' = nops + 1
    /\ last' = Call("dispatch", c, reducer(cells[c].value, action))
    /\ UNCHANGED <<provs, parent, registry, raised, uses, hist, due, dueMsg, dueEv>>

NextEffects ==
    \/ \E w \in Consumers, name \in Names : EUseState(w, name)
    \/ \E w \in Consumers : EStoreUse(w)
    \/ \E w \in Consumers : EUseReducerContext(w)
    \/ \E c \in DOMAIN cells, v \in {PyInt(0), PyInt(1)} : ESet(c, v)
    \/ \E c \in {1, 2}, action \in {"Increment", "Reset"} : EDispatch(c, action)

SpecEffects == InitEffects /\ [][NextEffects]_vars

\* The effect method m of widget w is called once, with the change, for each
\* change of cell c in the last call, and not otherwise.
CalledOncePerChange(w, m, c) ==
    /\ \A i \in DOMAIN log : (log[i].t = "commit" /\ log[i].cell = c) =>
          Cardinality({j \in DOMAIN log : /\ log[j].t = "call"
                                           /\ log[j].w = EffectCall(w, m)
                                           /\ log[j].id = log[i].id}) = 1
    /\ \A j \in DOMAIN log : (log[j].t = "call" /\ log[j].cell = c /\ log[j].w = EffectCall(w, m)) =>
          \E i \in 1..(j - 1) : /\ log[i].t = "commit" /\ log[i].cell = c /\ log[i].id = log[j].id
                                /\ log[i].old = log[j].old /\ log[i].new = log[j].new

CreatingHooks == {"use_state", "use_model_state", "use_reducer", "use_model_reducer", "use_derived"}

ConsumingHooks == {"Store.use", "use_reducer_context"}

Cells(w, hooks) == {uses[w][i].cell : i \in {k \in DOMAIN uses[w] : uses[w][k].hook \in hooks}}

(***************************************************************************)
(* C8.  Each effect method a widget's class declares for name n is called  *)
(* exactly once, with (old, new), for each change of a cell named n that   *)
(* the widget created, and not for a set that changes nothing.             *)
(***************************************************************************)
EffectsCalledOncePerChange ==
    \A w \in Widgets : \A c \in Cells(w, CreatingHooks) :
        \A m \in Declares(ClassOf(w)) :
            InSeq(NameTarget(cells[c].name), DeclaredTargets(ClassOf(w), m)) => CalledOncePerChange(w, m, c)

(***************************************************************************)
(* C9.  Each effect method a widget's class declares for a store or for a  *)
(* context's name is called exactly once for each change of the store's or *)
(* context's cell, however often the widget has consumed it.               *)
(***************************************************************************)
TargetOf(h, c) == IF h = "Store.use" THEN StoreTarget("S1") ELSE NameTarget(cells[c].name)

ConsumedEffectsCalledOncePerChange ==
    \A w \in Widgets : \A h \in ConsumingHooks : \A c \in Cells(w, {h}) :
        \A m \in Declares(ClassOf(w)) :
            (~startswith_underscore(m) /\ InSeq(TargetOf(h, c), DeclaredTargets(ClassOf(w), m)))
                => CalledOncePerChange(w, m, c)

(***************************************************************************)
(* C10.  Every effect bound to a cell for a widget, and every effect       *)
(* called, is a method that the widget's own class declares.               *)
(***************************************************************************)
OnlyOwnEffectsBound ==
    /\ \A c \in DOMAIN cells : \A i \in DOMAIN cells[c].watchers :
          cells[c].watchers[i].kind = "effect" =>
              cells[c].watchers[i].m \in Declares(ClassOf(cells[c].watchers[i].w))
    /\ \A j \in DOMAIN log :
          (log[j].t = "call" /\ log[j].w.kind = "effect") => log[j].w.m \in Declares(ClassOf(log[j].w.w))

(***************************************************************************)
(* C11.  When a widget has consumed a named cell through a provider lookup *)
(* (Store.use, use_context), each effect method its class declares for     *)
(* that name is bound to the cell, and is called for each of its changes.  *)
(***************************************************************************)
LookupHooks == {"Store.use", "use_context"}

Bound(w, m, c) == InSeq(EffectCall(w, m), cells[c].watchers)

NamedEffectsBoundOnLookup ==
    \A w \in Widgets : \A c \in Cells(w, LookupHooks) :
        \A m \in Declares(ClassOf(w)) :
            (/\ cells[c].name # NoName
             /\ ~startswith_underscore(m)
             /\ InSeq(NameTarget(cells[c].name), DeclaredTargets(ClassOf(w), m)))
                => /\ Bound(w, m, c)
                   /\ \A i \in DOMAIN log : (log[i].t = "commit" /\ log[i].cell = c) =>
                         \E j \in DOMAIN log : /\ log[j].t = "call" /\ log[j].id = log[i].id
                                               /\ log[j].w = EffectCall(w, m)

(***************************************************************************)
(* C12.  An effect method of widget w is bound to, and called for, only    *)
(* cells that w created or consumed; a method bound for a name is bound to *)
(* a cell of that name, never to a cell without a name.                    *)
(***************************************************************************)
Matches(w, m, c) ==
    LET targets == get_effect_registration(ClassOf(w), m) IN
    \/ cells[c].name # NoName /\ InSeq(NameTarget(cells[c].name), targets)
    \/ \E p \in Widgets : /\ provs[p].kind = "StoreProvider"
                          /\ provs[p].cell = c
                          /\ c \in Cells(w, {"Store.use"})
                          /\ InSeq(StoreTarget(provs[p].key), targets)

Scoped(e, c) ==
    e.kind = "effect" =>
        /\ c \in Cells(e.w, CreatingHooks \cup ConsumingHooks)
        /\ Matches(e.w, e.m, c)

EffectsScopedToOwnCells ==
    /\ \A c \in DOMAIN cells : \A i \in DOMAIN cells[c].watchers : Scoped(cells[c].watchers[i], c)
    /\ \A j \in DOMAIN log : log[j].t = "call" => Scoped(log[j].w, log[j].cell)

\* w1 and w2 each made a cell named "count", the reducer cell of that name is
\* app's, w2's cell has just changed and only w2's effects were called.
EffectsScopedToOwnCellsWitness ==
    \E c1 \in Cells("w1", CreatingHooks) : \E c2 \in Cells("w2", CreatingHooks) :
        /\ cells[c1].name = "count"
        /\ cells[c2].name = "count"
        /\ Bound("w1", "on_count", c1)
        /\ last.op = "set"
        /\ last.cell = c2
        /\ \E j \in DOMAIN log : log[j].t = "call" /\ log[j].w = EffectCall("w2", "on_base")

(***************************************************************************)
(* SpecContext: in the mounted tree, the program constructs                *)
(* ContextProviders for prov and rprov, w1 and w2 call use_context, and    *)
(* values are set through the handles they got.  hist records every call   *)
(* with what it raised and returned.                                       *)
(***************************************************************************)
InitContext ==
    /\ InitRest
    /\ cells = <<>>
    /\ provs = NoProviders
    /\ parent = Parent
    /\ uses = NoUses

Called(action, w, context, required, out) ==
    [action |-> action, w |-> w, context |-> context, required |-> required,
     raised |-> out.raised, cell |-> out.handle.cell, is_default |-> out.handle.is_default,
     value |-> IF out.handle.cell = 0 THEN PyInt(0) ELSE out.cells[out.handle.cell].value]

Returned(action, w, context, required, out) ==
    /\ nops < MaxEffectOps
    /\ Len(out.cells) <= MaxCells
    /\ cells' = out.cells
    /\ provs' = out.provs
    /\ raised' = out.raised
    /\ hist' = Append(hist, Called(action, w, context, required, out))
    /\ uses' = IF out.raised = ""
               THEN [uses EXCEPT ![w] = Append(@, [hook |-> action, cell |-> out.handle.cell,
                                                    is_default |-> out.handle.is_default])]
               ELSE uses
    /\ nops' = nops + 1
    /\ log' = <<>>
    /\ last' = NoCall
    /\ UNCHANGED <<msgs, calls, parent, registry, due, dueMsg, dueEv>>

XContextProvider(p, context) ==
    Returned("ContextProvider", p, context, FALSE,
             ContextProvider(cells, provs, p, context, default_value(context)))

XUseContext(w, context, required) ==
    Returned("use_context", w, context, required,
             use_context(cells, provs, parent, w, context, TRUE, required))

\* ContextHandle.set through the i-th handle w got
XSet(w, i, v) ==
    /\ nops < MaxEffectOps
    /\ i \in DOMAIN uses[w]
    /\ Commit(set(Cur, uses[w][i].cell, v))
    /\ nops' = nops + 1
    /\ last' = Call("set", uses[w][i].cell, v)
    /\ raised' = ""
    /\ hist' = Append(hist, [action |-> "set", w |-> w, context |-> "", required |-> FALSE,
                             raised |-> "", cell |-> uses[w][i].cell, is_default |-> uses[w][i].is_default,
                             value |-> v])
    /\ UNCHANGED <<provs, parent, registry, uses, due, dueMsg, dueEv>>

NextContext ==
    \/ \E p \in {"prov", "rprov"}, context \in Contexts : XContextProvider(p, context)
    \/ \E w \in Consumers, context \in Contexts, required \in BOOLEAN : XUseContext(w, context, required)
    \/ \E w \in Consumers, i \in 1..MaxEffectOps :
          \E v \in {PyModel("CounterState", fs) : fs \in FieldMaps} : XSet(w, i, v)

SpecContext == InitContext /\ [][NextContext]_vars

\* The widgets from w upwards.
RECURSIVE Chain(_, _)
Chain(tree, w) == IF w = NoWidget THEN <<>> ELSE <<w>> \o Chain(tree, tree[w])

\* The providers of a context that the program constructed, in calls 1..n,
\* on the chain from w upwards, nearest first.
Constructed(w, context, n) ==
    SelectSeq(Chain(parent, w),
              LAMBDA p : \E k \in 1..n : /\ hist[k].action = "ContextProvider"
                                         /\ hist[k].w = p
                                         /\ hist[k].context = context)

(***************************************************************************)
(* C13.  A use_context below ContextProviders of the context returns a     *)
(* handle, not a default one, on the cell of the nearest of them.          *)
(***************************************************************************)
NearestContextProviderWins ==
    \A n \in DOMAIN hist :
        (hist[n].action = "use_context" /\ Constructed(hist[n].w, hist[n].context, n) # <<>>) =>
            LET nearest == Constructed(hist[n].w, hist[n].context, n)[1] IN
            /\ hist[n].raised = ""
            /\ ~hist[n].is_default
            /\ provs[nearest].kind = "ContextProvider"
            /\ hist[n].cell = provs[nearest].cell

(***************************************************************************)
(* C14.  A use_context that is not required, with no ContextProvider of    *)
(* the context above the widget, returns a default handle on a cell of its *)
(* own that holds the context's default value.                             *)
(***************************************************************************)
DefaultHandleIsLocal ==
    \A n \in DOMAIN hist :
        (/\ hist[n].action = "use_context"
         /\ ~hist[n].required
         /\ Constructed(hist[n].w, hist[n].context, n) = <<>>) =>
            /\ hist[n].raised = ""
            /\ hist[n].is_default
            /\ hist[n].value = default_value(hist[n].context)
            /\ \A k \in 1..(n - 1) : hist[k].action = "use_context" => hist[k].cell # hist[n].cell

(***************************************************************************)
(* SpecLookup: app has made two reducers named "count" with use_reducer    *)
(* (cells 1 and 2); prov and rprov are each a StoreProvider of store S1 or *)
(* S2 (two stores with the same name and initial value) or a               *)
(* ReducerProvider of context RC1 or RC2 around one of app's handles.  The *)
(* tree is nested (app, prov, rprov, then w1 and w2) or has two branches   *)
(* (w1 below prov, w2 below rprov).  w1 and w2 look up store S1, reducer   *)
(* context RC1 and (required) context C1, and dispatch Increment through   *)
(* the handles they got.  hist records the calls.                          *)
(***************************************************************************)
Branches == [app |-> NoWidget, prov |-> "app", rprov |-> "app", w1 |-> "prov", w2 |-> "rprov"]

Shapes == {Parent, Branches}

StoreOf(s) == [kind |-> "StoreProvider", key |-> s, handle |-> 0]

ReducerOf(rc, h) == [kind |-> "ReducerProvider", key |-> rc, handle |-> h]

Mounts ==
    {<<StoreOf("S1"), StoreOf("S1")>>, <<StoreOf("S1"), StoreOf("S2")>>,
     <<ReducerOf("RC1", 1), ReducerOf("RC2", 1)>>, <<ReducerOf("RC1", 1), ReducerOf("RC1", 2)>>,
     <<ReducerOf("RC1", 1), ReducerOf("RC1", 1)>>, <<StoreOf("S1"), ReducerOf("RC1", 1)>>}

\* Constructing provider p of kind k: the cells and the providers after it.
Construct(cp, p, k) ==
    IF k.kind = "StoreProvider"
    THEN LET cs == StoreProvider(cp.cells, PyModel("CounterState", NoFields), "count") IN
         [cells |-> cs, provs |-> [cp.provs EXCEPT ![p] = Provider("StoreProvider", k.key, Len(cs))]]
    ELSE [cells |-> cp.cells, provs |-> ReducerProvider(cp.provs, p, k.key, k.handle)]

InitLookup ==
    /\ InitRest
    /\ uses = [NoUses EXCEPT !["app"] = <<Hook("use_reducer", 1), Hook("use_reducer", 2)>>]
    /\ parent \in Shapes
    /\ \E m \in Mounts :
          LET made == use_reducer(use_reducer(<<>>, "app", PyInt(0), "count"), "app", PyInt(0), "count")
              built == Construct(Construct([cells |-> made, provs |-> NoProviders], "prov", m[1]),
                                 "rprov", m[2])
          IN cells = built.cells /\ provs = built.provs

Looked(action, w, key, provider, exc) ==
    [action |-> action, w |-> w, key |-> key, provider |-> provider, raised |-> exc,
     cell |-> IF provider = NoWidget THEN 0 ELSE provs[provider].cell]

Lookup(action, w, key, provider, exc, cs) ==
    /\ Len(hist) < MaxLookups
    /\ cells' = cs
    /\ raised' = exc
    /\ hist' = Append(hist, Looked(action, w, key, provider, exc))
    /\ uses' = IF exc = ""
               THEN [uses EXCEPT ![w] = Append(@, [hook |-> action, cell |-> provs[provider].cell,
                                                    is_default |-> FALSE, provider |-> provider])]
               ELSE uses
    /\ nops' = nops + 1
    /\ log' = <<>>
    /\ last' = NoCall
    /\ UNCHANGED <<msgs, calls, provs, parent, registry, due, dueMsg, dueEv>>

NotFound(provider) == IF provider = NoWidget THEN "RuntimeError" ELSE ""

LStoreUse(w, store) ==
    LET provider == _find_provider(provs, parent, w, "StoreProvider", store) IN
    Lookup("Store.use", w, store, provider, NotFound(provider), Store_use(cells, provs, parent, w, store, TRUE))

LUseReducerContext(w, context) ==
    LET provider == _find_provider(provs, parent, w, "ReducerProvider", context) IN
    Lookup("use_reducer_context", w, context, provider, NotFound(provider),
           use_reducer_context(cells, provs, parent, w, context, TRUE))

LUseContext(w, context) ==
    LET out == use_context(cells, provs, parent, w, context, TRUE, TRUE) IN
    Lookup("use_context", w, context, NoWidget, out.raised, out.cells)

\* StoreHandle.dispatch / ReducerHandle.dispatch through the i-th handle w got
LDispatch(w, i) ==
    /\ Len(hist) < MaxLookups
    /\ i \in DOMAIN uses[w]
    /\ LET h == uses[w][i] IN
       /\ CountOf(reducer(cells[h.cell].value, "Increment")) <= MaxCount
       /\ Commit(dispatch(Cur, IF h.hook = "Store.use" THEN "StoreProvider" ELSE "use_reducer",
                          h.cell, "Increment"))
       /\ last' = Call("dispatch", h.cell, reducer(cells[h.cell].value, "Increment"))
       /\ hist' = Append(hist, Looked("dispatch", w, "", h.provider, ""))
    /\ raised' = ""
    /\ nops' = nops + 1
    /\ UNCHANGED <<provs, parent, registry, uses, due, dueMsg, dueEv>>

NextLookup ==
    \/ \E w \in Consumers : LStoreUse(w, "S1")
    \/ \E w \in Consumers : LUseReducerContext(w, "RC1")
    \/ \E w \in Consumers : LUseContext(w, "C1")
    \/ \E w \in Consumers, i \in 1..MaxLookups : LDispatch(w, i)
    \/ LStoreUse("app", "S1")

SpecLookup == InitLookup /\ [][NextLookup]_vars

KindOf(action) ==
    CASE action = "Store.use" -> "StoreProvider"
      [] action = "use_reducer_context" -> "ReducerProvider"
      [] OTHER -> "ContextProvider"

\* The providers of the very object a lookup names, on the chain from the
\* consumer upwards, nearest first.
Enclosing(w, action, key) ==
    SelectSeq(Chain(parent, w), LAMBDA p : provs[p].kind = KindOf(action) /\ provs[p].key = key)

Lookups == {"Store.use", "use_reducer_context", "use_context"}

(***************************************************************************)
(* C15.  A lookup matches by the identity of the store or context and by   *)
(* ancestry only: it returns the cell of the nearest provider of that very *)
(* object on the consumer's own parent chain, and it fails when there is   *)
(* none there, whatever providers of a namesake or in another branch exist.*)
(***************************************************************************)
MatchByIdentityAndAncestry ==
    \A n \in DOMAIN hist :
        hist[n].action \in Lookups =>
            LET above == Enclosing(hist[n].w, hist[n].action, hist[n].key) IN
            IF above = <<>>
            THEN hist[n].raised # "" /\ hist[n].cell = 0
            ELSE /\ hist[n].raised = ""
                 /\ hist[n].provider = above[1]
                 /\ hist[n].cell = provs[above[1]].cell

\* A lookup of S1 failed below a provider of its namesake S2 while a
\* provider of S1 sits in the other branch.
MatchByIdentityAndAncestryWitness ==
    \E n \in DOMAIN hist :
        /\ hist[n].action = "Store.use"
        /\ hist[n].raised = "RuntimeError"
        /\ \E p \in DOMAIN provs : /\ provs[p].kind = "StoreProvider" /\ provs[p].key = "S2"
                                   /\ InSeq(p, Chain(parent, hist[n].w))
        /\ \E q \in DOMAIN provs : /\ provs[q].kind = "StoreProvider" /\ provs[q].key = "S1"
                                   /\ ~InSeq(q, Chain(parent, hist[n].w))

Failed(action) == IF action = "use_context" THEN "ContextNotFoundError" ELSE "RuntimeError"

(***************************************************************************)
(* C16.  A lookup by a consumer with no provider of that object on its     *)
(* chain raises (ContextNotFoundError for a required use_context,          *)
(* RuntimeError for Store.use and use_reducer_context) and the call        *)
(* changes no cell (no value, subscriber set or watcher list), posts no    *)
(* message, calls nothing and gives the consumer no handle.                *)
(***************************************************************************)
FailedLookupChangesNothing ==
    [][(/\ Len(hist') = Len(hist) + 1
        /\ hist'[Len(hist')].action \in Lookups
        /\ Enclosing(hist'[Len(hist')].w, hist'[Len(hist')].action, hist'[Len(hist')].key) = <<>>)
       => /\ raised' = Failed(hist'[Len(hist')].action)
          /\ cells' = cells
          /\ msgs' = msgs
          /\ calls' = calls
          /\ uses' = uses]_vars

\* Each of the three lookups has failed in one behaviour in which a lookup
\* of another object succeeded, and the last call was a failed one.
FailedLookupChangesNothingWitness ==
    /\ \A a \in Lookups : \E n \in DOMAIN hist : hist[n].action = a /\ hist[n].raised = Failed(a)
    /\ raised # ""
    /\ \E n \in DOMAIN hist : hist[n].action \in Lookups /\ hist[n].raised = ""

StoreProviders == {p \in DOMAIN provs : provs[p].kind = "StoreProvider"}

\* The dispatches made so far through handles obtained under the providers ps
DispatchesUnder(ps) == {n \in DOMAIN hist : hist[n].action = "dispatch" /\ hist[n].provider \in ps}

\* The consumers that obtained a handle under provider p
ConsumersOf(p) ==
    {w \in Widgets : \E n \in DOMAIN hist :
        hist[n].action \in Lookups /\ hist[n].raised = "" /\ hist[n].provider = p /\ hist[n].w = w}

(***************************************************************************)
(* C17.  Each mounted StoreProvider has a cell of its own, also when two   *)
(* of them provide the same store.  The cell starts at the store's initial *)
(* value and counts exactly the Increments dispatched through handles      *)
(* obtained under that provider; its subscribers and the widgets of its    *)
(* watchers are the consumers that resolved to that provider.              *)
(***************************************************************************)
StoreMountsAreIndependent ==
    \A p \in StoreProviders :
        LET c == provs[p].cell IN
        /\ \A q \in StoreProviders \ {p} : provs[q].cell # c
        /\ cells[c].value = PyModel("CounterState", [NoFields EXCEPT !.count = Cardinality(DispatchesUnder({p}))])
        /\ cells[c].subscribers = ConsumersOf(p)
        /\ \A i \in DOMAIN cells[c].watchers : cells[c].watchers[i].w \in ConsumersOf(p)

\* Store S1 is mounted twice, a consumer has resolved to each mount, and after
\* dispatches through one handle the two mounts hold different values.
StoreMountsAreIndependentWitness ==
    \E p \in StoreProviders, q \in StoreProviders :
        /\ p # q
        /\ provs[p].key = "S1" /\ provs[q].key = "S1"
        /\ ConsumersOf(p) # {} /\ ConsumersOf(q) # {}
        /\ ConsumersOf(p) # ConsumersOf(q)
        /\ DispatchesUnder({p}) # {}
        /\ cells[provs[p].cell].value # cells[provs[q].cell].value
        /\ cells[provs[q].cell].value = PyModel("CounterState", NoFields)

Providers == {p \in DOMAIN provs : provs[p].kind # ""}

\* The effect methods the class of consumer w declares for what provider p
\* provides: for the store itself, or for the name of the provided cell.
EffectsFor(w, p) ==
    {m \in Declares(ClassOf(w)) :
        \/ provs[p].kind = "StoreProvider"
           /\ InSeq(StoreTarget(provs[p].key), DeclaredTargets(ClassOf(w), m))
        \/ cells[provs[p].cell].name # NoName
           /\ InSeq(NameTarget(cells[provs[p].cell].name), DeclaredTargets(ClassOf(w), m))}

(***************************************************************************)
(* C18.  Every handle a consumer obtained under a provider is on that      *)
(* provider's cell, and each change of that cell posts a message to every  *)
(* consumer of the provider and calls every effect method those consumers  *)
(* declare for the store or for the cell's name.                           *)
(***************************************************************************)
ConsumersShareProviderCell ==
    \A p \in Providers : \A w \in ConsumersOf(p) :
        LET c == provs[p].cell IN
        /\ \A i \in DOMAIN uses[w] : uses[w][i].provider = p => uses[w][i].cell = c
        /\ \A i \in DOMAIN log : (log[i].t = "commit" /\ log[i].cell = c) =>
              /\ \E j \in DOMAIN log : log[j].t = "post" /\ log[j].id = log[i].id /\ w \in log[j].to
              /\ \A m \in EffectsFor(w, p) :
                    \E j \in DOMAIN log : /\ log[j].t = "call" /\ log[j].id = log[i].id
                                          /\ log[j].w = EffectCall(w, m)

ReducerProviders == {p \in DOMAIN provs : provs[p].kind = "ReducerProvider"}

\* The providers that hold the cell provider p holds
Sharing(p) == {q \in Providers : provs[q].cell = provs[p].cell}

(***************************************************************************)
(* C19.  A StoreProvider makes its own cell: no hook made it and no other  *)
(* provider holds it.  A ReducerProvider makes none: its cell is the cell  *)
(* of the use_reducer handle it was given, so ReducerProviders given the   *)
(* same handle hold one cell.  The value under a provider counts the       *)
(* Increments dispatched under all the providers that hold its cell.       *)
(***************************************************************************)
ProvidersOwnOrWrapCells ==
    /\ \A p \in StoreProviders :
          /\ Sharing(p) = {p}
          /\ \A w \in Widgets : provs[p].cell \notin Cells(w, CreatingHooks)
    /\ \A p \in ReducerProviders : provs[p].cell \in Cells("app", {"use_reducer"})
    /\ \A p \in Providers :
          CountOf(cells[provs[p].cell].value) = Cardinality(DispatchesUnder(Sharing(p)))

\* Two ReducerProviders were given one handle, a consumer has resolved to
\* each, and a dispatch under one has changed the value under the other.
ProvidersOwnOrWrapCellsWitness ==
    \E p \in ReducerProviders, q \in ReducerProviders :
        /\ p # q
        /\ q \in Sharing(p)
        /\ ConsumersOf(p) # {} /\ ConsumersOf(q) # {}
        /\ DispatchesUnder({p}) # {}
        /\ DispatchesUnder({q}) = {}
        /\ CountOf(cells[provs[q].cell].value) > 0

\* C19 as the specification words it: the value under a provider counts the
\* Increments dispatched under that provider alone.
DispatchStaysUnderItsProvider ==
    \A p \in Providers :
        CountOf(cells[provs[p].cell].value) = Cardinality(DispatchesUnder({p}))

(***************************************************************************)
(* SpecMount: the tree changes.  prov is a StoreProvider of S1 and rprov a *)
(* ReducerProvider of RC1 around app's use_reducer handle; both, and the   *)
(* consumer w1, are constructed but not attached.  The framework attaches  *)
(* a widget below an attached one (its parent is set), later delivers      *)
(* Mount to it (a provider's on_mount registers it), and removes a widget  *)
(* that has no children left.  w1 looks up S1, RC1 and MC1 at any moment;  *)
(* hist records each lookup with the chain above w1 and the registered     *)
(* providers at that moment.                                               *)
(***************************************************************************)
Mountable == {"prov", "rprov", "w1"}

Unattached == [w \in Widgets |-> NoWidget]

InitMount ==
    /\ InitRest
    /\ uses = [NoUses EXCEPT !["app"] = <<Hook("use_reducer", 1)>>]
    /\ parent = Unattached
    /\ LET made == use_reducer(<<>>, "app", PyInt(0), "count")
           built == Construct(Construct([cells |-> made, provs |-> NoProviders], "prov", StoreOf("S1")),
                              "rprov", ReducerOf("RC1", 1))
       IN cells = built.cells /\ provs = built.provs

Attached(x) == x = "app" \/ parent[x] # NoWidget

\* The framework sets x.parent when x is mounted below `under`.
MAttach(x, under) ==
    /\ ~Attached(x)
    /\ Attached(under)
    /\ x # under
    /\ provs[under].kind # "" \/ under = "app"
    /\ parent' = [parent EXCEPT ![x] = under]
    /\ UNCHANGED <<cells, msgs, log, calls, provs, registry, raised, uses, hist, nops, last, due, dueMsg, dueEv>>

\* StoreProvider.on_mount / ReducerProvider.on_mount
on_mount(reg, p) == reg \cup {p}

MOnMount(p) ==
    /\ provs[p].kind # ""
    /\ Attached(p)
    /\ p \notin registry
    /\ registry' = on_mount(registry, p)
    /\ UNCHANGED <<cells, msgs, log, calls, provs, parent, raised, uses, hist, nops, last, due, dueMsg, dueEv>>

\* The framework removes x, which has no children left.  The registry is a
\* WeakValueDictionary: the entry of a removed provider goes when the
\* provider is collected, which may be now or never.
MRemove(x) ==
    /\ x \in Mountable
    /\ Attached(x)
    /\ \A y \in Widgets : parent[y] # x
    /\ parent' = [parent EXCEPT ![x] = NoWidget]
    /\ registry' \in {registry, registry \ {x}}
    /\ UNCHANGED <<cells, msgs, log, calls, provs, raised, uses, hist, nops, last, due, dueMsg, dueEv>>

Resolved(action, w, key, provider, exc, c, is_default) ==
    [action |-> action, w |-> w, key |-> key, provider |-> provider, raised |-> exc,
     cell |-> c, is_default |-> is_default, chain |-> Chain(parent, w), mounted |-> registry]

Resolve(entry, cs) ==
    /\ Len(hist) < MaxResolutions
    /\ cells' = cs
    /\ raised' = entry.raised
    /\ hist' = Append(hist, entry)
    /\ uses' = IF entry.raised = ""
               THEN [uses EXCEPT ![entry.w] = Append(@, [hook |-> entry.action, cell |-> entry.cell,
                                                          is_default |-> entry.is_default,
                                                          provider |-> entry.provider])]
               ELSE uses
    /\ nops' = nops + 1
    /\ log' = <<>>
    /\ last' = NoCall
    /\ UNCHANGED <<msgs, calls, provs, parent, registry, due, dueMsg, dueEv>>

MStoreUse(w, store) ==
    LET provider == _find_provider(provs, parent, w, "StoreProvider", store) IN
    Resolve(Resolved("Store.use", w, store, provider, NotFound(provider),
                     IF provider = NoWidget THEN 0 ELSE provs[provider].cell, FALSE),
            Store_use(cells, provs, parent, w, store, TRUE))

MUseReducerContext(w, context) ==
    LET provider == _find_provider(provs, parent, w, "ReducerProvider", context) IN
    Resolve(Resolved("use_reducer_context", w, context, provider, NotFound(provider),
                     IF provider = NoWidget THEN 0 ELSE provs[provider].cell, FALSE),
            use_reducer_context(cells, provs, parent, w, context, TRUE))

MUseContext(w, context, required) ==
    LET out == use_context(cells, provs, parent, w, context, TRUE, required) IN
    Resolve(Resolved("use_context", w, context, NoWidget, out.raised, out.handle.cell, out.handle.is_default),
            out.cells)

NextMount ==
    \/ \E x \in Mountable, under \in Widgets : MAttach(x, under)
    \/ \E p \in Mountable : MOnMount(p)
    \/ \E x \in Mountable : MRemove(x)
    \/ MStoreUse("w1", "S1")
    \/ MUseReducerContext("w1", "RC1")
    \/ \E required \in BOOLEAN : MUseContext("w1", "MC1", required)

SpecMount == InitMount /\ [][NextMount]_vars

(***************************************************************************)
(* C20.  A lookup returns a provider's cell exactly when a provider of the *)
(* object is on the consumer's chain and has been mounted (is registered)  *)
(* at that moment, and then the cell of the nearest such provider;         *)
(* otherwise it raises or returns a default handle.                        *)
(***************************************************************************)
ProvidedWhileMounted ==
    \A n \in DOMAIN hist :
        LET h == hist[n]
            above == SelectSeq(h.chain, LAMBDA p : /\ provs[p].kind = KindOf(h.action)
                                                    /\ provs[p].key = h.key
                                                    /\ p \in h.mounted)
        IN IF above = <<>>
           THEN h.raised # "" \/ h.is_default
           ELSE h.raised = "" /\ ~h.is_default /\ h.cell = provs[above[1]].cell

(***************************************************************************)
(* C21.  A Store.use by the component that has the store's provider as its *)
(* own child returns a handle on that provider's cell.                     *)
(***************************************************************************)
ParentOfProviderConsumes ==
    \A n \in DOMAIN hist : \A p \in StoreProviders :
        (/\ hist[n].action = "Store.use"
         /\ parent[p] = hist[n].w
         /\ provs[p].key = hist[n].key)
            => /\ hist[n].raised = ""
               /\ hist[n].cell = provs[p].cell

(***************************************************************************)
(* SpecWatch: one State holding 0.  The program registers callbacks with   *)
(* watch, keeps every closure watch returned, calls any of them any number *)
(* of times, and sets the cell.  hist records the calls: the k-th watch is *)
(* registration k, and closure k is the closure it returned.               *)
(***************************************************************************)
InitWatch ==
    /\ cells = <<State(PyInt(0), NoName)>>
    /\ provs = NoProviders
    /\ parent = Parent
    /\ uses = NoUses
    /\ InitRest

Watches(h) == Cardinality({n \in DOMAIN h : h[n].action = "watch"})

\* The callback registration k was made for
CallbackOf(h, k) == h[CHOOSE n \in DOMAIN h : h[n].action = "watch" /\ h[n].reg = k].cb

WatchCall(action, cb, k, exc, seen) ==
    [action |-> action, cb |-> cb, reg |-> k, raised |-> exc, seen |-> seen]

WatchStep(entry) ==
    /\ Len(hist) < MaxWatchOps
    /\ hist' = Append(hist, entry)
    /\ raised' = entry.raised
    /\ nops' = nops + 1
    /\ UNCHANGED <<provs, parent, registry, uses, due, dueMsg, dueEv>>

\* State.watch(callback)
WWatch(cb) ==
    /\ cells' = watch(cells, 1, Callback(cb))
    /\ WatchStep(WatchCall("watch", cb, Watches(hist) + 1, "", <<>>))
    /\ log' = <<>>
    /\ last' = NoCall
    /\ UNCHANGED <<msgs, calls>>

\* The closure of registration k: self._watchers.remove(callback), which
\* raises ValueError when the list does not hold the callback.
WUnwatch(k) ==
    /\ k \in 1..Watches(hist)
    /\ LET cb == CallbackOf(hist, k)
           held == InSeq(Callback(cb), cells[1].watchers)
       IN /\ cells' = IF held THEN unwatch(cells, 1, Callback(cb)) ELSE cells
          /\ WatchStep(WatchCall("unwatch", cb, k, IF held THEN "" ELSE "ValueError", <<>>))
    /\ log' = <<>>
    /\ last' = NoCall
    /\ UNCHANGED <<msgs, calls>>

\* State.set(v); the entry keeps the callbacks the call invoked, in order
WSet(v) ==
    LET S == set(Cur, 1, v)
        made == SelectSeq(S.log, LAMBDA e : e.t = "call")
    IN /\ Commit(S)
       /\ WatchStep(WatchCall("set", "", 0, "", [j \in DOMAIN made |-> made[j].w.cb]))
       /\ last' = Call("set", 1, v)

NextWatch ==
    \/ \E cb \in Callbacks : WWatch(cb)
    \/ \E k \in 1..MaxWatchOps : WUnwatch(k)
    \/ \E v \in {PyInt(0), PyInt(1)} : WSet(v)

SpecWatch == InitWatch /\ [][NextWatch]_vars

RECURSIVE Kept(_)
\* The registrations still standing after the calls h, oldest first, when a
\* closure removes its own registration and nothing else.
Kept(h) ==
    IF h = <<>> THEN <<>>
    ELSE LET before == Kept(SubSeq(h, 1, Len(h) - 1))
             e == h[Len(h)]
         IN CASE e.action = "watch" -> Append(before, e.reg)
              [] e.action = "unwatch" -> SelectSeq(before, LAMBDA r : r # e.reg)
              [] OTHER -> before

KeptCallbacks(h) == [i \in DOMAIN Kept(h) |-> CallbackOf(h, Kept(h)[i])]

\* No closure has been called more than once
OnceEach ==
    \A m, n \in DOMAIN hist :
        (hist[m].action = "unwatch" /\ hist[n].action = "unwatch" /\ hist[m].reg = hist[n].reg) => m = n

(***************************************************************************)
(* C22.  While every closure has been called at most once, the watcher     *)
(* list holds exactly the registrations whose closure has not been called, *)
(* in registration order, and every accepted set has invoked exactly the   *)
(* registrations standing at that moment, in that order.                   *)
(***************************************************************************)
ClosureRemovesItsRegistration ==
    OnceEach =>
        /\ cells[1].watchers = [i \in DOMAIN Kept(hist) |-> Callback(KeptCallbacks(hist)[i])]
        /\ \A n \in DOMAIN hist :
              (hist[n].action = "set" /\ hist[n].seen # <<>>) =>
                  hist[n].seen = KeptCallbacks(SubSeq(hist, 1, n))

(***************************************************************************)
(* C23.  A closure never raises, and after any calls, repeated ones        *)
(* included, the watcher list holds exactly the registrations whose        *)
(* closure has not been called: a second call of a closure changes         *)
(* nothing, and a closure removes its own position.                        *)
(***************************************************************************)
UnwatchIsIdempotent ==
    /\ \A n \in DOMAIN hist : hist[n].action = "unwatch" => hist[n].raised = ""
    /\ cells[1].watchers = [i \in DOMAIN Kept(hist) |-> Callback(KeptCallbacks(hist)[i])]

(***************************************************************************)
(* SpecQueue: w1, a Counter, has made cell 1 with use_state(w1, 0,         *)
(* name="count"), so it is subscribed and its effect methods for "count"   *)
(* are bound.  w1 and w2 subscribe and unsubscribe, the cell is set, and   *)
(* the framework delivers the oldest message queued for a widget to the    *)
(* widget's handler.  hist records the steps.                              *)
(***************************************************************************)
InitQueue ==
    /\ cells = use_state(<<>>, "w1", PyInt(0), "count")
    /\ provs = NoProviders
    /\ parent = Parent
    /\ uses = [NoUses EXCEPT !["w1"] = <<Hook("use_state", 1)>>]
    /\ InitRest

QueueCall(action, w, cand, msg) ==
    [action |-> action, w |-> w, old |-> cells[1].value, new |-> cand,
     subs |-> cells[1].subscribers, msg |-> msg]

QueueStep(entry) ==
    /\ Len(hist) < MaxQueueOps
    /\ hist' = Append(hist, entry)
    /\ nops' = nops + 1
    /\ UNCHANGED <<provs, parent, registry, raised, uses, due, dueMsg, dueEv>>

QSubscribe(w) ==
    /\ cells' = subscribe(cells, 1, w)
    /\ QueueStep(QueueCall("subscribe", w, cells[1].value, Message(0, PyInt(0), PyInt(0))))
    /\ log' = <<>>
    /\ last' = NoCall
    /\ UNCHANGED <<msgs, calls>>

QUnsubscribe(w) ==
    /\ cells' = unsubscribe(cells, 1, w)
    /\ QueueStep(QueueCall("unsubscribe", w, cells[1].value, Message(0, PyInt(0), PyInt(0))))
    /\ log' = <<>>
    /\ last' = NoCall
    /\ UNCHANGED <<msgs, calls>>

QSet(v) ==
    /\ Commit(set(Cur, 1, v))
    /\ QueueStep(QueueCall("set", "", v, Message(0, PyInt(0), PyInt(0))))
    /\ last' = Call("set", 1, v)

\* The widget's message pump takes the oldest queued message and runs the
\* handler (on_state_changed) with it.
QDeliver(w) ==
    /\ msgs[w] # <<>>
    /\ msgs' = [msgs EXCEPT ![w] = Tail(@)]
    /\ QueueStep(QueueCall("deliver", w, cells[1].value, Head(msgs[w])))
    /\ log' = <<>>
    /\ last' = NoCall
    /\ UNCHANGED <<cells, calls>>

NextQueue ==
    \/ \E w \in Consumers : QSubscribe(w)
    \/ \E w \in Consumers : QUnsubscribe(w)
    \/ \E v \in {PyInt(0), PyInt(1)} : QSet(v)
    \/ \E w \in Consumers : QDeliver(w)

SpecQueue == InitQueue /\ [][NextQueue]_vars

\* The step that has just been taken
Taken == hist'[Len(hist')]

Stepped(actions) == Len(hist') = Len(hist) + 1 /\ Taken.action \in actions

(***************************************************************************)
(* C24.  subscribe and unsubscribe raise nothing and change nothing but    *)
(* the subscriber set, which gains or loses the widget (and stays as it    *)
(* is when the widget was already in it, or was not in it); and every      *)
(* accepted set calls every watcher on the list, the effect methods of a   *)
(* widget that has unsubscribed included.                                  *)
(***************************************************************************)
SubscriptionChangesOnlySubscribers ==
    [][/\ Stepped({"subscribe", "unsubscribe"}) =>
            /\ raised' = ""
            /\ cells'[1].value = cells[1].value
            /\ cells'[1].watchers = cells[1].watchers
            /\ cells'[1].name = cells[1].name
            /\ cells'[1].subscribers = IF Taken.action = "subscribe"
                                       THEN cells[1].subscribers \cup {Taken.w}
                                       ELSE cells[1].subscribers \ {Taken.w}
            /\ msgs' = msgs
            /\ calls' = calls
       /\ (Stepped({"set"}) /\ ~Equals(Taken.old, Taken.new)) =>
            /\ [j \in DOMAIN SelectSeq(log', LAMBDA e : e.t = "call") |->
                   SelectSeq(log', LAMBDA e : e.t = "call")[j].w]
                 = [j \in DOMAIN cells[1].watchers |-> cells[1].watchers[j]]]_vars

\* w1 subscribed again while subscribed, w2 unsubscribed without being
\* subscribed, w1 unsubscribed, and then an accepted set called an effect
\* method of w1 and posted nothing to it.
SubscriptionChangesOnlySubscribersWitness ==
    /\ \E n \in DOMAIN hist : hist[n].action = "subscribe" /\ hist[n].w \in hist[n].subs
    /\ \E n \in DOMAIN hist : hist[n].action = "unsubscribe" /\ hist[n].w \notin hist[n].subs
    /\ \E n \in DOMAIN hist : hist[n].action = "unsubscribe" /\ hist[n].w = "w1" /\ "w1" \in hist[n].subs
    /\ hist[Len(hist)].action = "set"
    /\ "w1" \notin hist[Len(hist)].subs
    /\ \E j \in DOMAIN log : log[j].t = "call" /\ log[j].w.kind = "effect" /\ log[j].w.w = "w1"

\* Whether w is subscribed, by what it has called, before step n: its last
\* subscribe or unsubscribe decides, and use_state subscribed w1 at the start.
SubscribedBefore(h, n, w) ==
    LET own == {m \in 1..(n - 1) : h[m].action \in {"subscribe", "unsubscribe"} /\ h[m].w = w} IN
    IF own = {} THEN w = "w1"
    ELSE h[CHOOSE m \in own : \A k \in own : k <= m].action = "subscribe"

(***************************************************************************)
(* C25.  An unsubscribe withdraws nothing from any queue, an accepted set  *)
(* posts nothing to a widget that is not subscribed at that moment, and a  *)
(* message queued before the unsubscribe is delivered as it was posted.    *)
(***************************************************************************)
CancellationAffectsFutureOnly ==
    [][/\ Stepped({"unsubscribe"}) => msgs' = msgs
       /\ Stepped({"set"}) =>
            \A w \in Widgets : ~SubscribedBefore(hist', Len(hist'), w) => msgs'[w] = msgs[w]
       /\ Stepped({"deliver"}) =>
            /\ Taken.msg = Head(msgs[Taken.w])
            /\ cells' = cells]_vars

\* A message was posted to w1, w1 unsubscribed, a later accepted set posted
\* nothing to it, and then the message posted before was delivered to it.
CancellationAffectsFutureOnlyWitness ==
    \E a, b, c, d \in DOMAIN hist :
        /\ a < b /\ b < c /\ c < d
        /\ hist[a].action = "set" /\ ~Equals(hist[a].old, hist[a].new) /\ SubscribedBefore(hist, a, "w1")
        /\ hist[b].action = "unsubscribe" /\ hist[b].w = "w1"
        /\ hist[c].action = "set" /\ ~Equals(hist[c].old, hist[c].new) /\ ~SubscribedBefore(hist, c, "w1")
        /\ hist[d].action = "deliver" /\ hist[d].w = "w1"
        /\ hist[d].msg = Message(1, hist[a].old, hist[a].new)
        /\ msgs["w1"] = <<>>

\* The messages handed to the handler of w so far, oldest first
Delivered(w) ==
    LET ds == SelectSeq(hist, LAMBDA e : e.action = "deliver" /\ e.w = w)
    IN [j \in DOMAIN ds |-> ds[j].msg]

\* The accepted sets made while w was subscribed, oldest first, as messages
CommittedFor(w) ==
    LET ns == {n \in DOMAIN hist : /\ hist[n].action = "set"
                                   /\ ~Equals(hist[n].old, hist[n].new)
                                   /\ SubscribedBefore(hist, n, w)}
        ss == SelectSeq([n \in DOMAIN hist |-> [n |-> n, e |-> hist[n]]], LAMBDA x : x.n \in ns)
    IN [j \in DOMAIN ss |-> Message(1, ss[j].e.old, ss[j].e.new)]

(***************************************************************************)
(* C26.  A set runs the watchers and then queues the messages; no handler  *)
(* runs inside it.  For each widget the messages delivered so far followed *)
(* by the messages still queued are the accepted sets made while it was    *)
(* subscribed, in the order of the sets.                                   *)
(***************************************************************************)
DeliveryDeferredAndOrdered ==
    /\ \A w \in Widgets : Delivered(w) \o msgs[w] = CommittedFor(w)
    /\ \A i \in DOMAIN log : log[i].t \in {"commit", "call", "post"}
    /\ \A i, j \in DOMAIN log : (log[i].t = "call" /\ log[j].t = "post") => i < j
    /\ \A n \in DOMAIN hist : hist[n].action = "deliver" =>
          \E m \in 1..(n - 1) : /\ hist[m].action = "set"
                                /\ hist[n].msg = Message(1, hist[m].old, hist[m].new)

\* Two accepted sets have queued two messages for w1, in the order of the
\* sets, behind one already delivered, and the last set called a watcher.
DeliveryDeferredAndOrderedWitness ==
    /\ Len(msgs["w1"]) = 2
    /\ msgs["w1"][1] # msgs["w1"][2]
    /\ Len(Delivered("w1")) = 1
    /\ \E i \in DOMAIN log : log[i].t = "call"

(***************************************************************************)
(* SpecUpdate: one cell holding a record with fields count and tag: a      *)
(* ModelState, or the State behind a ModelContextHandle.  A callback       *)
(* watches it, a widget subscribes, and the program calls update with any  *)
(* choice of fields.  hist holds the last update call: its fields and the  *)
(* value before it.                                                        *)
(***************************************************************************)
Records == {PyModel("CounterState", fs) : fs \in [count : 0..MaxVal, tag : 0..MaxVal]}

AllKwargs == UNION {[fields -> 0..MaxVal] : fields \in SUBSET {"count", "tag"}}

InitUpdate ==
    /\ \E v \in Records : cells \in {<<ModelState(v, NoName)>>, <<State(v, "theme")>>}
    /\ provs = NoProviders
    /\ parent = Parent
    /\ uses = NoUses
    /\ InitRest

UpdateStep ==
    /\ nops < MaxUpdateOps
    /\ nops' = nops + 1
    /\ UNCHANGED <<provs, parent, registry, raised, uses, due, dueMsg, dueEv>>

UWatch(cb) ==
    /\ cells' = watch(cells, 1, Callback(cb))
    /\ UpdateStep
    /\ log' = <<>>
    /\ last' = NoCall
    /\ UNCHANGED <<msgs, calls, hist>>

USubscribe(w) ==
    /\ cells' = subscribe(cells, 1, w)
    /\ UpdateStep
    /\ log' = <<>>
    /\ last' = NoCall
    /\ UNCHANGED <<msgs, calls, hist>>

\* ModelState.update(**kwargs)
UUpdate(kwargs) ==
    /\ cells[1].type = "ModelState"
    /\ Commit(update(Cur, 1, kwargs))
    /\ UpdateStep
    /\ last' = Call("update", 1, cells[1].value)
    /\ hist' = <<[action |-> "update", kwargs |-> kwargs, old |-> cells[1].value]>>

\* ModelContextHandle.update(**kwargs)
HUpdate(kwargs) ==
    /\ cells[1].type = "State"
    /\ Commit(ModelContextHandle_update(Cur, 1, kwargs))
    /\ UpdateStep
    /\ last' = Call("update", 1, cells[1].value)
    /\ hist' = <<[action |-> "update", kwargs |-> kwargs, old |-> cells[1].value]>>

NextUpdate ==
    \/ UWatch("cbA")
    \/ USubscribe("w1")
    \/ \E kwargs \in AllKwargs : UUpdate(kwargs)
    \/ \E kwargs \in AllKwargs : HUpdate(kwargs)

SpecUpdate == InitUpdate /\ [][NextUpdate]_vars

\* Every field update(kwargs) names already has the value given for it
AllGivenEqual(kwargs, old) == \A x \in DOMAIN kwargs : kwargs[x] = old.f[x]

(***************************************************************************)
(* C27.  After update(fields) the record has the class it had, each given  *)
(* field has the given value and every other field the value it had.  If   *)
(* every given field already had the given value, the call changes         *)
(* nothing, calls no watcher and posts nothing; otherwise it is one        *)
(* change: each watcher is called once with (old, new) and each subscriber *)
(* is posted one message.                                                  *)
(***************************************************************************)
UpdateOverridesGivenFields ==
    [][(nops' = nops + 1 /\ last'.op = "update") =>
         LET kwargs == hist'[1].kwargs
             old == cells[1].value
             new == cells'[1].value
         IN /\ new.k = "model" /\ new.cls = old.cls
            /\ \A x \in DOMAIN old.f : new.f[x] = IF x \in DOMAIN kwargs THEN kwargs[x] ELSE old.f[x]
            /\ IF AllGivenEqual(kwargs, old)
               THEN cells' = cells /\ msgs' = msgs /\ calls' = calls /\ log' = <<>>
               ELSE /\ Cardinality({i \in DOMAIN log' : log'[i].t = "commit"}) = 1
                    /\ \A cb \in Callbacks :
                          calls'[cb] = calls[cb] + Registrations(cells, 1, Callback(cb))
                    /\ \A i \in DOMAIN log' : log'[i].t \in {"call", "post"} =>
                          log'[i].old = old /\ log'[i].new = new
                    /\ \A w \in Widgets :
                          msgs'[w] = IF w \in cells[1].subscribers
                                     THEN Append(msgs[w], Message(1, old, new))
                                     ELSE msgs[w]]_vars

\* An update of one field of a record whose other field is not at its
\* default, on a cell with a watcher and a subscriber, has changed the value.
UpdateOverridesGivenFieldsWitness ==
    /\ hist # <<>>
    /\ DOMAIN hist[1].kwargs = {"count"}
    /\ hist[1].old.f.tag # 0
    /\ cells[1].value # hist[1].old
    /\ cells[1].value.f.tag = hist[1].old.f.tag
    /\ calls["cbA"] > 0
    /\ msgs["w1"] # <<>>

(***************************************************************************)
(* SpecRaise: w1 has made cell 1 with use_reducer or use_model_reducer,    *)
(* named "count", and a callback watches it.  The program sets the cell    *)
(* with updaters and dispatches actions; one updater and one action make   *)
(* the function raise.  hist holds the last call: what was passed and the  *)
(* state of the cell, the queues and the call counts before it.            *)
(***************************************************************************)
InitRaise ==
    /\ \/ /\ cells = watch(use_reducer(<<>>, "w1", PyInt(0), "count"), 1, Callback("cbA"))
          /\ uses = [NoUses EXCEPT !["w1"] = <<Hook("use_reducer", 1)>>]
       \/ /\ cells = watch(use_model_reducer(<<>>, "w1", PyModel("CounterState", NoFields), "count"),
                           1, Callback("cbA"))
          /\ uses = [NoUses EXCEPT !["w1"] = <<Hook("use_model_reducer", 1)>>]
    /\ provs = NoProviders
    /\ parent = Parent
    /\ InitRest

RaiseStep(op, arg, out) ==
    /\ nops < MaxOps
    /\ CountOf(out.S.cells[1].value) \in 0..MaxCount
    /\ Commit(out.S)
    /\ raised' = out.raised
    /\ nops' = nops + 1
    /\ last' = Call(op, 1, cells[1].value)
    /\ hist' = <<[action |-> op, arg |-> arg, cells |-> cells, msgs |-> msgs, calls |-> calls]>>
    /\ UNCHANGED <<provs, parent, registry, uses, due, dueMsg, dueEv>>

ZSetWith(fn) == RaiseStep("set", fn, set_or_raise(Cur, 1, fn))

ZDispatch(action) == RaiseStep("dispatch", action, dispatch_or_raise(Cur, BindingOf(1), 1, action))

NextRaise ==
    \/ \E fn \in Updaters \cup {Raising} : ZSetWith(fn)
    \/ \E action \in {"Increment", "Reset", Raising} : ZDispatch(action)

SpecRaise == InitRaise /\ [][NextRaise]_vars

(***************************************************************************)
(* C28.  A set whose updater raises, and a dispatch whose reducer raises,  *)
(* raises to the caller and leaves the cell, the queues and the call       *)
(* counts as they were before the call, with nothing called or posted; a   *)
(* call that does not raise ends with the value the function returned for  *)
(* the value the cell held, whatever failed before.                        *)
(***************************************************************************)
RaisingCallChangesNothing ==
    hist # <<>> =>
        LET e == hist[1] IN
        IF e.arg = Raising
        THEN /\ raised # ""
             /\ cells = e.cells
             /\ msgs = e.msgs
             /\ calls = e.calls
             /\ log = <<>>
        ELSE /\ raised = ""
             /\ cells[1].value = IF e.action = "set" THEN Apply(e.arg, e.cells[1].value)
                                 ELSE reducer(e.cells[1].value, e.arg)

\* A raising call on a cell that was changed before, with a message queued
\* and the watcher called; and the same for a raising dispatch.
RaisingCallChangesNothingWitness ==
    /\ hist # <<>>
    /\ hist[1].arg = Raising
    /\ hist[1].action = "dispatch"
    /\ raised # ""
    /\ CountOf(cells[1].value) > 0
    /\ msgs["w1"] # <<>>
    /\ calls["cbA"] > 0

(***************************************************************************)
(* A selector that raises.  lambda x: 6 // x raises ZeroDivisionError for  *)
(* 0.  on_source_change has no try/except and neither has the loop over    *)
(* the watchers in _set_value, so the error leaves both: the watchers      *)
(* after the derivation are not called and the messages are not posted.    *)
(* The assignment self._value = new_value has run before the loop.         *)
(***************************************************************************)
SelectRaises(sel, args) == sel = "ratio" /\ args[1].n = 0

\* The effect method whose body raises, in the programs that have one.
MethodRaises(m) == m = "on_either"

\* Whether calling watcher w now raises: a derivation whose selector raises
\* for the sources' values, a watcher that always raises, an effect lambda
\* whose method raises.
WatcherRaises(S, w) ==
    \/ w.kind = "derive" /\ SelectRaises(w.sel, get_values(S, w.src))
    \/ w.kind = "raiser"
    \/ w.kind = "effect" /\ MethodRaises(w.m)

RECURSIVE notify_or_raise(_, _, _, _, _, _)
\* for watcher in self._watchers: watcher(old_value, new_value), from index i
\* on, up to the first watcher that raises.
notify_or_raise(S, c, i, old, new, id) ==
    IF i > Len(S.cells[c].watchers) THEN Ran(S, "")
    ELSE LET w == S.cells[c].watchers[i] IN
         IF WatcherRaises(S, w)
         THEN Ran([S EXCEPT !.log = Append(@, Event("call", c, w, {}, old, new, id, S.cells))],
                  IF w.kind = "derive" THEN "ZeroDivisionError" ELSE "Error")
         ELSE notify_or_raise(Invoke(S, w, c, old, new, id), c, i + 1, old, new, id)

\* A _set_value that puts the old value back when a watcher raises.
_set_value_or_raise_rolled_back(S, c, new_value) ==
    LET old_value == S.cells[c].value IN
    IF SameValue(old_value, new_value) THEN Ran(S, "")
    ELSE LET id == Commits(S.log) + 1
             cs == [S.cells EXCEPT ![c].value = new_value]
             S1 == [S EXCEPT !.cells = cs,
                             !.log = Append(@, Event("commit", c, NoWatcher, {}, old_value,
                                                      new_value, id, cs))]
             r == notify_or_raise(S1, c, 1, old_value, new_value, id)
         IN IF r.raised # "" THEN Ran([r.S EXCEPT !.cells[c].value = old_value], r.raised)
            ELSE Ran(PostMessages(r.S, c, old_value, new_value, id), "")
\* State._set_value with watchers that may raise.
_set_value_or_raise(S, c, new_value) ==
    LET old_value == S.cells[c].value IN
    IF SameValue(old_value, new_value) THEN Ran(S, "")
    ELSE LET id == Commits(S.log) + 1
             cs == [S.cells EXCEPT ![c].value = new_value]
             S1 == [S EXCEPT !.cells = cs,
                             !.log = Append(@, Event("commit", c, NoWatcher, {}, old_value,
                                                      new_value, id, cs))]
             r == notify_or_raise(S1, c, 1, old_value, new_value, id)
         IN IF r.raised # "" THEN r
            ELSE Ran(PostMessages(r.S, c, old_value, new_value, id), "")

(***************************************************************************)
(* SpecSelector: w1 has made cell 1 with use_state(1), a callback watches  *)
(* it, and cell 2 derives 6 // x from it; the program sets cell 1 and      *)
(* registers more callbacks on it.  hist holds the last set: the value     *)
(* passed and the cells, queues and call counts before it.                 *)
(***************************************************************************)
InitSelector ==
    /\ cells = use_derived(watch(use_state(<<>>, "w1", PyInt(1), NoName), 1, Callback("cbA")),
                           "w1", <<1>>, "ratio", NoName)
    /\ uses = [NoUses EXCEPT !["w1"] = <<Hook("use_state", 1), Hook("use_derived", 2)>>]
    /\ provs = NoProviders
    /\ parent = Parent
    /\ InitRest

YSet(v) ==
    LET out == _set_value_or_raise(Cur, 1, v) IN
    /\ nops < MaxOps
    /\ Commit(out.S)
    /\ raised' = out.raised
    /\ nops' = nops + 1
    /\ last' = Call("set", 1, v)
    /\ hist' = <<[v |-> v, cells |-> cells, msgs |-> msgs, calls |-> calls]>>
    /\ UNCHANGED <<provs, parent, registry, uses, due, dueMsg, dueEv>>

YWatch(cb) ==
    /\ nops < MaxOps
    /\ Len(cells[1].watchers) < MaxCells
    /\ cells' = watch(cells, 1, Callback(cb))
    /\ nops' = nops + 1
    /\ UNCHANGED <<msgs, log, calls, provs, parent, registry, raised, uses, hist, last,
                   due, dueMsg, dueEv>>

NextSelector ==
    \/ \E v \in PlainValues : YSet(v)
    \/ \E cb \in Callbacks : YWatch(cb)

SpecSelector == InitSelector /\ [][NextSelector]_vars

(***************************************************************************)
(* C29.  When the selector of a derivation raises during source.set(v),    *)
(* the error reaches the caller, the derivation keeps its value, the       *)
(* source is left at the value it held before the call, and no watcher is  *)
(* called and no message posted for the failed call.                       *)
(***************************************************************************)
SelectorErrorCommitsNothing ==
    (hist # <<>> /\ raised # "") =>
        LET e == hist[1] IN
        /\ cells[2].value = e.cells[2].value
        /\ cells[1].value = e.cells[1].value
        /\ calls = e.calls
        /\ msgs = e.msgs

(***************************************************************************)
(* SpecRoundTrip: w1 has made cell 1 with use_state(0) or with             *)
(* use_model_state(CounterState(count=0)), and a callback watches it.  The *)
(* program sets it to values and with the updater x + 1.  hist holds the   *)
(* calls in order: what was passed (v, or the updater fn) and the pairs    *)
(* (old, new) the callback was called with during the call.                *)
(***************************************************************************)
MaxRoundTrip == 4

MaxSeen == 7

Counter(n) == PyModel("CounterState", [count |-> n, tag |-> 0])

InitRoundTrip ==
    /\ \/ /\ cells = watch(use_state(<<>>, "w1", PyInt(0), NoName), 1, Callback("cbA"))
          /\ uses = [NoUses EXCEPT !["w1"] = <<Hook("use_state", 1)>>]
       \/ /\ cells = watch(use_model_state(<<>>, "w1", Counter(0), NoName), 1, Callback("cbA"))
          /\ uses = [NoUses EXCEPT !["w1"] = <<Hook("use_model_state", 1)>>]
    /\ provs = NoProviders
    /\ parent = Parent
    /\ InitRest

\* The (old, new) pairs the callbacks were called with, in call order.
SeenIn(lg) ==
    LET cb == SelectSeq(lg, LAMBDA e : e.t = "call" /\ e.w.kind = "cb")
    IN [i \in DOMAIN cb |-> <<cb[i].old, cb[i].new>>]

RoundTripValues ==
    IF cells[1].type = "ModelState" THEN {Counter(0), Counter(5)}
    ELSE {PyInt(0), PyInt(5), PyBool(TRUE)}

RoundTripStep(v, fn, S) ==
    /\ Len(hist) < MaxRoundTrip
    /\ CountOf(S.cells[1].value) <= MaxSeen
    /\ Commit(S)
    /\ nops' = nops + 1
    /\ last' = Call("set", 1, v)
    /\ hist' = Append(hist, [v |-> v, fn |-> fn, seen |-> SeenIn(S.log)])
    /\ UNCHANGED <<provs, parent, registry, raised, uses, due, dueMsg, dueEv>>

TSet(v) == RoundTripStep(v, "", set(Cur, 1, v))

TSetWith(fn) == RoundTripStep(PyInt(0), fn, set_with(Cur, 1, fn))

NextRoundTrip ==
    \/ \E v \in RoundTripValues : TSet(v)
    \/ TSetWith("inc")

SpecRoundTrip == InitRoundTrip /\ [][NextRoundTrip]_vars

\* x + 1, on a number and on the count of a record.
PlusOne(v) == IF v.k = "model" THEN Counter(v.f.count + 1) ELSE PyInt(v.n + 1)

RECURSIVE Expected(_, _)
\* The value the calls h should leave in a cell created with v0.
Expected(v0, h) ==
    IF h = <<>> THEN v0
    ELSE LET e == h[Len(h)]
             prev == Expected(v0, SubSeq(h, 1, Len(h) - 1))
         IN IF e.fn = "" THEN e.v ELSE PlusOne(prev)

RECURSIVE ExpectedSeen(_, _)
\* The pairs a watcher should have seen over the calls h: one per call that
\* changed the value.
ExpectedSeen(v0, h) ==
    IF h = <<>> THEN <<>>
    ELSE LET front == SubSeq(h, 1, Len(h) - 1)
             prev == Expected(v0, front)
             now == Expected(v0, h)
         IN ExpectedSeen(v0, front) \o (IF Equals(prev, now) THEN <<>> ELSE <<<<prev, now>>>>)

RECURSIVE SeenOver(_)
SeenOver(h) == IF h = <<>> THEN <<>> ELSE SeenOver(SubSeq(h, 1, Len(h) - 1)) \o h[Len(h)].seen

Created0 == IF cells[1].type = "ModelState" THEN Counter(0) ELSE PyInt(0)

(***************************************************************************)
(* C30.  After set(v) the cell holds v; after set(f) it holds f applied to *)
(* the value the previous call left; and the watcher has seen exactly one  *)
(* pair (old, new) for each call that changed the value, in call order.    *)
(***************************************************************************)
SetGetRoundTrip ==
    /\ Equals(cells[1].value, Expected(Created0, hist))
    /\ LET seen == SeenOver(hist)
           want == ExpectedSeen(Created0, hist)
       IN /\ Len(seen) = Len(want)
          /\ \A i \in DOMAIN seen : Equals(seen[i][1], want[i][1]) /\ Equals(seen[i][2], want[i][2])

\* From 0: set(5), set(5), set(x -> x + 1) ends at 6, the watcher having seen
\* (0, 5) then (5, 6).
SetGetRoundTripWitness ==
    /\ Len(hist) = 3
    /\ hist[1].fn = "" /\ hist[1].v = PyInt(5)
    /\ hist[2].fn = "" /\ hist[2].v = PyInt(5)
    /\ hist[3].fn = "inc"
    /\ cells[1].value = PyInt(6)
    /\ SeenOver(hist) = << <<PyInt(0), PyInt(5)>>, <<PyInt(5), PyInt(6)>> >>

(***************************************************************************)
(* SpecOrder: w1 has made a = use_state(3) and b = use_state(4), cell 3 as *)
(* use_derived([a, b], x + y) and cell 4 as use_derived of x - y over      *)
(* [a, b] or over [b, a].  The program sets a and b.  hist holds the sets  *)
(* in call order.                                                          *)
(***************************************************************************)
MaxOrderOps == 3

OrderValues == {PyInt(3), PyInt(4), PyInt(10), PyInt(20)}

InitOrder ==
    /\ \E src \in {<<1, 2>>, <<2, 1>>} :
          cells = use_derived(
                    use_derived(use_state(use_state(<<>>, "w1", PyInt(3), NoName),
                                          "w1", PyInt(4), NoName),
                                "w1", <<1, 2>>, "sum", NoName),
                    "w1", src, "minus", NoName)
    /\ uses = [NoUses EXCEPT !["w1"] = <<Hook("use_state", 1), Hook("use_state", 2),
                                         Hook("use_derived", 3), Hook("use_derived", 4)>>]
    /\ provs = NoProviders
    /\ parent = Parent
    /\ InitRest

OSet(c, v) ==
    /\ Len(hist) < MaxOrderOps
    /\ Commit(set(Cur, c, v))
    /\ nops' = nops + 1
    /\ last' = Call("set", c, v)
    /\ hist' = Append(hist, [cell |-> c, v |-> v])
    /\ UNCHANGED <<provs, parent, registry, raised, uses, due, dueMsg, dueEv>>

NextOrder == \E c \in {1, 2}, v \in OrderValues : OSet(c, v)

SpecOrder == InitOrder /\ [][NextOrder]_vars

RECURSIVE LastSet(_, _, _)
\* The number the sets h leave in cell c, created with v0.
LastSet(h, c, v0) ==
    IF h = <<>> THEN v0
    ELSE IF h[Len(h)].cell = c THEN h[Len(h)].v.n
    ELSE LastSet(SubSeq(h, 1, Len(h) - 1), c, v0)

SourceNow(c) == IF c = 1 THEN LastSet(hist, 1, 3) ELSE LastSet(hist, 2, 4)

\* The source list cell 4 was created with: the cells whose watcher lists
\* hold its recomputation, as recorded there.
OrderOf(d) ==
    LET ws == SelectSeq(cells[1].watchers, LAMBDA w : w.kind = "derive" /\ w.d = d)
    IN ws[1].src

(***************************************************************************)
(* C31.  A derivation holds its selector applied to its sources' values,   *)
(* taken in the order of the source list it was created with: at creation  *)
(* and after every set of a source.  x + y over [a, b] holds a + b, and    *)
(* x - y holds first source minus second source.                           *)
(***************************************************************************)
SelectorGetsSourcesInListOrder ==
    /\ cells[3].value = PyInt(SourceNow(1) + SourceNow(2))
    /\ cells[4].value = PyInt(SourceNow(OrderOf(4)[1]) - SourceNow(OrderOf(4)[2]))

\* a = 3, b = 4 gave 7; after a.set(10) then b.set(20) the sum is 30, and
\* x - y over [b, a] is 10.
SelectorGetsSourcesInListOrderWitness ==
    /\ hist = <<[cell |-> 1, v |-> PyInt(10)], [cell |-> 2, v |-> PyInt(20)]>>
    /\ cells[3].value = PyInt(30)
    /\ OrderOf(4) = <<2, 1>>
    /\ cells[4].value = PyInt(10)

(***************************************************************************)
(* SpecChain: w1 has made a = use_state(0), b = use_derived(a, f) and      *)
(* c = use_derived(b, g, name="name"); w1's class has one effect method    *)
(* for "name".  The program sets a.  hist holds the sets in call order:    *)
(* the value passed, the value a held, and the events of the call.         *)
(***************************************************************************)
MaxChainOps == 3

ChainValues == {PyInt(0), PyInt(1), PyInt(2)}

InitChain ==
    /\ \E f \in {"succ", "double"}, g \in {"parity", "is_positive"} :
          cells = use_derived(use_derived(use_state(<<>>, "w1", PyInt(0), NoName),
                                          "w1", <<1>>, f, NoName),
                              "w1", <<2>>, g, "name")
    /\ uses = [NoUses EXCEPT !["w1"] = <<Hook("use_state", 1), Hook("use_derived", 2),
                                         Hook("use_derived", 3)>>]
    /\ provs = NoProviders
    /\ parent = Parent
    /\ InitRest

CSet(v) ==
    LET S == set(Cur, 1, v) IN
    /\ Len(hist) < MaxChainOps
    /\ Commit(S)
    /\ nops' = nops + 1
    /\ last' = Call("set", 1, v)
    /\ hist' = Append(hist, [v |-> v, prev |-> cells[1].value, log |-> S.log])
    /\ UNCHANGED <<provs, parent, registry, raised, uses, due, dueMsg, dueEv>>

NextChain == \E v \in ChainValues : CSet(v)

SpecChain == InitChain /\ [][NextChain]_vars

\* The selector of the derivation watching cell c.
SelectorOn(c) ==
    LET ws == SelectSeq(cells[c].watchers, LAMBDA w : w.kind = "derive") IN ws[1].sel

\* g(f(x))
Composed(x) == Select(SelectorOn(2), <<Select(SelectorOn(1), <<x>>)>>)

\* The events of one call that are about cell c: of kind t, and the calls of
\* effect methods.
About(lg, t, c) == SelectSeq(lg, LAMBDA e : e.t = t /\ e.cell = c)

EffectCallsOn(lg, c) == SelectSeq(lg, LAMBDA e : e.t = "call" /\ e.cell = c /\ e.w.kind = "effect")

(***************************************************************************)
(* C32.  In the chain a -> b = f(a) -> c = g(b), after every a.set(x) c    *)
(* holds g(f(x)); for a call that changes g(f(a)) the effect method bound  *)
(* to c's name is called once with (g(f(old)), g(f(new))) and one message  *)
(* is posted for c; for a call that leaves g(f(a)) as it was, nothing is   *)
(* committed, called or posted for c, whether or not b changed.            *)
(***************************************************************************)
ChainComposes ==
    /\ hist # <<>> => Equals(cells[3].value, Composed(hist[Len(hist)].v))
    /\ \A n \in DOMAIN hist :
          LET e == hist[n]
              was == Composed(e.prev)
              now == Composed(e.v)
              fx == EffectCallsOn(e.log, 3)
              posts == About(e.log, "post", 3)
          IN IF Equals(was, now)
             THEN fx = <<>> /\ posts = <<>> /\ About(e.log, "commit", 3) = <<>>
             ELSE /\ Len(fx) = 1 /\ Equals(fx[1].old, was) /\ Equals(fx[1].new, now)
                  /\ Len(posts) = 1 /\ Equals(posts[1].old, was) /\ Equals(posts[1].new, now)

\* With f = x + 1 and g = x % 2: a.set(2) changed b from 1 to 3 and left c
\* at 1 without an event; then a.set(1) changed c to 0 and the effect saw
\* (1, 0).
ChainComposesWitness ==
    /\ Len(hist) = 2
    /\ SelectorOn(1) = "succ" /\ SelectorOn(2) = "parity"
    /\ hist[1].v = PyInt(2) /\ About(hist[1].log, "commit", 2) # <<>>
    /\ EffectCallsOn(hist[1].log, 3) = <<>>
    /\ hist[2].v = PyInt(1)
    /\ Len(EffectCallsOn(hist[2].log, 3)) = 1
    /\ EffectCallsOn(hist[2].log, 3)[1].old = PyInt(1)
    /\ EffectCallsOn(hist[2].log, 3)[1].new = PyInt(0)
    /\ cells[3].value = PyInt(0)

(***************************************************************************)
(* The decorator.  A function either has no __textual_reactive_effects__   *)
(* attribute or carries an EffectRegistration with a list of targets.      *)
(* effect raises     before it returns a decorator when it is given  *)
(* no target; the decorator it returns appends the targets to the          *)
(* function's registration, creating it first when there is none.          *)
(***************************************************************************)
NoRegistration == [set |-> FALSE, targets |-> <<>>]

EffectRegistration(targets) == [set |-> TRUE, targets |-> targets]

\* A decorator that accepts an empty target list and registers it.
effect_deferred(attr, targets) ==
    [attr |-> EffectRegistration(attr.targets \o targets), raised |-> ""]
\* the decorator effect returns, applied to a method, on the attribute the method carries.
effect(attr, targets) ==
    IF targets = <<>> THEN [attr |-> attr, raised |-> "ValueError"]
    ELSE [attr |-> EffectRegistration(attr.targets \o targets), raised |-> ""]

(***************************************************************************)
(* SpecDecorate: a module body that decorates two functions, any number of *)
(* times, with lists of up to MaxTargets targets.  No widget and no cell   *)
(* exists.  registry maps each function to its attribute; hist holds the   *)
(* last decoration: the function, the targets and the attributes before.   *)
(***************************************************************************)
MaxTargets == 2

MaxRegistered == 3

Methods == {"on_a", "on_b"}

EffectTargets == {NameTarget("count"), StoreTarget("S1")}

TargetLists == UNION {[1..n -> EffectTargets] : n \in 0..MaxTargets}

InitDecorate ==
    /\ cells = <<>>
    /\ provs = NoProviders
    /\ parent = Parent
    /\ uses = NoUses
    /\ registry = [m \in Methods |-> NoRegistration]
    /\ raised = ""
    /\ msgs = [w \in Widgets |-> <<>>]
    /\ log = <<>>
    /\ calls = [cb \in Callbacks |-> 0]
    /\ hist = <<>>
    /\ nops = 0
    /\ last = NoCall
    /\ due = [cb \in Callbacks |-> 0]
    /\ dueMsg = [w \in Widgets |-> 0]
    /\ dueEv = 0

FEffect(m, targets) ==
    LET out == effect(registry[m], targets) IN
    /\ Len(out.attr.targets) <= MaxRegistered
    /\ registry' = [registry EXCEPT ![m] = out.attr]
    /\ raised' = out.raised
    /\ hist' = <<[m |-> m, targets |-> targets, before |-> registry]>>
    /\ UNCHANGED <<cells, msgs, log, calls, provs, parent, uses, nops, last, due, dueMsg, dueEv>>

NextDecorate == \E m \in Methods, targets \in TargetLists : FEffect(m, targets)

SpecDecorate == InitDecorate /\ [][NextDecorate]_vars

(***************************************************************************)
(* C33.  Decorating with no target raises at once and leaves every         *)
(* function's attribute as it was; decorating with one or more targets     *)
(* does not raise and leaves the function carrying what it carried         *)
(* followed by the targets in the order given, the other functions         *)
(* untouched, with no widget or cell involved.                             *)
(***************************************************************************)
EffectRejectsNoTargetsEagerly ==
    hist # <<>> =>
        LET e == hist[1] IN
        /\ cells = <<>>
        /\ IF e.targets = <<>>
           THEN raised # "" /\ registry = e.before
           ELSE /\ raised = ""
                /\ registry[e.m].set
                /\ registry[e.m].targets = e.before[e.m].targets \o e.targets
                /\ \A m \in Methods \ {e.m} : registry[m] = e.before[m]

\* on_a carries ("count", S1) in that order; then decorating the bare on_b
\* with no target raised and left on_b bare.
EffectRejectsNoTargetsEagerlyWitness ==
    /\ hist # <<>>
    /\ hist[1].targets = <<>> /\ hist[1].m = "on_b"
    /\ raised = "ValueError"
    /\ ~registry["on_b"].set
    /\ registry["on_a"] = EffectRegistration(<<NameTarget("count"), StoreTarget("S1")>>)

(***************************************************************************)
(* SpecReenter: w1 has made cell 1 with use_state(0) and is its            *)
(* subscriber; callbacks cbA and cbB and a watcher that sets the cell to 2 *)
(* when it sees 1 are registered on it, in any order.  The program sets    *)
(* the cell.  hist holds, per set, the value passed and the events of the  *)
(* call; no message is taken from the queue.                               *)
(***************************************************************************)
MaxReenterOps == 3

Orders(ws) == {o \in [1..Cardinality(ws) -> ws] : \A i, j \in DOMAIN o : o[i] = o[j] => i = j}

RECURSIVE watch_all(_, _, _, _)
\* state.watch called for each watcher of ws, from index i on.
watch_all(cs, c, ws, i) ==
    IF i > Len(ws) THEN cs ELSE watch_all(watch(cs, c, ws[i]), c, ws, i + 1)

InitReenter ==
    /\ \E o \in Orders({Callback("cbA"), Callback("cbB"), Reenter(1)}) :
          cells = watch_all(use_state(<<>>, "w1", PyInt(0), NoName), 1, o, 1)
    /\ uses = [NoUses EXCEPT !["w1"] = <<Hook("use_state", 1)>>]
    /\ provs = NoProviders
    /\ parent = Parent
    /\ InitRest

ReenterStep(c, v, S) ==
    /\ Commit(S)
    /\ nops' = nops + 1
    /\ last' = Call("set", c, v)
    /\ hist' = Append(hist, [cell |-> c, v |-> v, log |-> S.log])
    /\ UNCHANGED <<provs, parent, registry, raised, uses, due, dueMsg, dueEv>>

NSet(v) ==
    /\ Len(hist) < MaxReenterOps
    /\ ReenterStep(1, v, set(Cur, 1, v))

NextReenter == \E v \in ChainValues : NSet(v)

SpecReenter == InitReenter /\ [][NextReenter]_vars

RECURSIVE LogOver(_)
\* The events of all the calls of h, in order.
LogOver(h) == IF h = <<>> THEN <<>> ELSE LogOver(SubSeq(h, 1, Len(h) - 1)) \o h[Len(h)].log

\* The (old, new) pairs watcher w was called with on cell c, in the order of
\* the calls.
PairsSeen(c, w) ==
    LET ev == SelectSeq(LogOver(hist), LAMBDA e : e.t = "call" /\ e.cell = c /\ e.w = w)
    IN [i \in DOMAIN ev |-> <<ev[i].old, ev[i].new>>]

\* The (old, new) pairs of the messages about cell c in widget w's queue.
PairsQueued(c, w) ==
    LET ms == SelectSeq(msgs[w], LAMBDA m : m.cell = c)
    IN [i \in DOMAIN ms |-> <<ms[i].old, ms[i].new>>]

\* Each pair starts where the one before it ended, the first at v0.
IsChain(ps, v0) ==
    \A i \in DOMAIN ps : Equals(ps[i][1], IF i = 1 THEN v0 ELSE ps[i - 1][2])

(***************************************************************************)
(* C34.  Every watcher of the cell, and its subscriber, receives the       *)
(* cell's changes as a chain: the first change starts at the value the     *)
(* cell held at registration and each later one starts at the value the    *)
(* one before ended with, also when a watcher sets the cell while it is    *)
(* notifying.                                                              *)
(***************************************************************************)
EventsChainUnderReentrancy ==
    /\ \A i \in DOMAIN cells[1].watchers : IsChain(PairsSeen(1, cells[1].watchers[i]), PyInt(0))
    /\ IsChain(PairsQueued(1, "w1"), PyInt(0))

(***************************************************************************)
(* SpecMidFlight: cell 1 made with use_state(0) has three watchers, in any *)
(* order: callbacks cbA and cbB and a watcher that, when called, calls the *)
(* closure that removes itself, cbA or cbB.  The program sets the cell.    *)
(* hist holds, per set, the value passed, the events of the call and the   *)
(* watcher list when the call returned.                                    *)
(***************************************************************************)
MaxMidFlightOps == 3

InitMidFlight ==
    /\ \E m \in {"self", "cbA", "cbB"} :
       \E o \in Orders({Callback("cbA"), Callback("cbB"), Remover("cbK", m)}) :
          cells = watch_all(use_state(<<>>, "w1", PyInt(0), NoName), 1, o, 1)
    /\ uses = [NoUses EXCEPT !["w1"] = <<Hook("use_state", 1)>>]
    /\ provs = NoProviders
    /\ parent = Parent
    /\ InitRest

KSet(v) ==
    LET S == set(Cur, 1, v) IN
    /\ Len(hist) < MaxMidFlightOps
    /\ Commit(S)
    /\ nops' = nops + 1
    /\ last' = Call("set", 1, v)
    /\ hist' = Append(hist, [v |-> v, prev |-> cells[1].value, log |-> S.log,
                             after |-> S.cells[1].watchers])
    /\ UNCHANGED <<provs, parent, registry, raised, uses, due, dueMsg, dueEv>>

NextMidFlight == \E v \in ChainValues : KSet(v)

SpecMidFlight == InitMidFlight /\ [][NextMidFlight]_vars

\* How many times watcher w was called in the events lg.
TimesCalled(lg, w) == Cardinality({i \in DOMAIN lg : lg[i].t = "call" /\ lg[i].w = w})

(***************************************************************************)
(* C35.  For every set that changed the cell, each watcher still           *)
(* registered when the call returned was called exactly once for that      *)
(* change, whatever a watcher removed during the delivery.                 *)
(***************************************************************************)
RegisteredWatchersNotSkipped ==
    \A n \in DOMAIN hist :
        LET e == hist[n] IN
        ~Equals(e.prev, e.v) =>
            \A i \in DOMAIN e.after : TimesCalled(e.log, e.after[i]) = 1

(***************************************************************************)
(* SpecSettled: prov provides store S1, a CounterState; w1, below it, has  *)
(* consumed the store with Store.use (its class has an effect method for   *)
(* S1) and has made cell 2 with use_state(0, name="count") (its class has  *)
(* effect methods for "count").  w1 then makes derivations of the store    *)
(* (state.count) and of cell 2 (x + 1); actions are dispatched to the      *)
(* store and cell 2 is set.                                                *)
(***************************************************************************)
InitSettled ==
    /\ provs = [NoProviders EXCEPT !["prov"] = Provider("StoreProvider", "S1", 1)]
    /\ parent = Parent
    /\ cells = use_state(Store_use(StoreProvider(<<>>, PyModel("CounterState", NoFields), "S1"),
                                    provs, parent, "w1", "S1", TRUE),
                         "w1", PyInt(0), "count")
    /\ uses = [NoUses EXCEPT !["w1"] = <<Hook("Store.use", 1), Hook("use_state", 2)>>]
    /\ InitRest

GUseDerived(c) ==
    Create("w1", "use_derived",
           use_derived(cells, "w1", <<c>>, IF c = 1 THEN "count_of" ELSE "succ", NoName))

GSet(v) ==
    /\ nops < MaxOps
    /\ Commit(set(Cur, 2, v))
    /\ nops' = nops + 1
    /\ last' = Call("set", 2, v)
    /\ UNCHANGED <<provs, parent, registry, raised, uses, hist, due, dueMsg, dueEv>>

GDispatch(action) ==
    /\ nops < MaxOps
    /\ CountOf(reducer(cells[1].value, action)) \in 0..MaxCount
    /\ Commit(dispatch(Cur, "StoreProvider", 1, action))
    /\ nops' = nops + 1
    /\ last' = Call("dispatch", 1, reducer(cells[1].value, action))
    /\ UNCHANGED <<provs, parent, registry, raised, uses, hist, due, dueMsg, dueEv>>

NextSettled ==
    \/ \E c \in {1, 2} : GUseDerived(c)
    \/ \E v \in ChainValues : GSet(v)
    \/ \E action \in {"Increment", "Reset"} : GDispatch(action)

SpecSettled == InitSettled /\ [][NextSettled]_vars

(***************************************************************************)
(* C36.  At the moment an effect method is called for a change of a cell,  *)
(* every derivation of that cell holds its selector applied to the cell's  *)
(* new value.                                                              *)
(***************************************************************************)
EffectsSeeSettledDerivations ==
    \A i \in DOMAIN log :
        (log[i].t = "call" /\ log[i].w.kind = "effect") =>
            \A j \in DOMAIN cells[log[i].cell].watchers :
                LET dw == cells[log[i].cell].watchers[j] IN
                dw.kind = "derive" => Equals(log[i].env[dw.d], Select(dw.sel, <<log[i].new>>))

(***************************************************************************)
(* SpecWatcherRaise: w1 has made cell 1 with use_state(0) and is its       *)
(* subscriber.  Either the cell has no name and callbacks cbA, cbB and a   *)
(* watcher that raises are registered on it in any order, or the cell is   *)
(* named "name", which binds w1's effect method on_either, whose body      *)
(* raises, and cbA and cbB are registered after it.  The program sets the  *)
(* cell.  hist holds, per set, the value passed, the value found and left, *)
(* the events of the call and the error that reached the caller.           *)
(***************************************************************************)
MaxRaiseOps == 3

InitWatcherRaise ==
    /\ \/ \E o \in Orders({Callback("cbA"), Callback("cbB"), Raiser}) :
             cells = watch_all(use_state(<<>>, "w1", PyInt(0), NoName), 1, o, 1)
       \/ cells = watch_all(use_state(<<>>, "w1", PyInt(0), "name"), 1,
                            <<Callback("cbA"), Callback("cbB")>>, 1)
    /\ uses = [NoUses EXCEPT !["w1"] = <<Hook("use_state", 1)>>]
    /\ provs = NoProviders
    /\ parent = Parent
    /\ InitRest

PSet(v) ==
    LET out == _set_value_or_raise(Cur, 1, v) IN
    /\ Len(hist) < MaxRaiseOps
    /\ Commit(out.S)
    /\ raised' = out.raised
    /\ nops' = nops + 1
    /\ last' = Call("set", 1, v)
    /\ hist' = Append(hist, [v |-> v, prev |-> cells[1].value, now |-> out.S.cells[1].value,
                             log |-> out.S.log, raised |-> out.raised])
    /\ UNCHANGED <<provs, parent, registry, uses, due, dueMsg, dueEv>>

NextWatcherRaise == \E v \in ChainValues : PSet(v)

SpecWatcherRaise == InitWatcherRaise /\ [][NextWatcherRaise]_vars

\* The position of the watcher that raises in cell 1's list.
RaiserAt ==
    CHOOSE i \in DOMAIN cells[1].watchers :
        cells[1].watchers[i].kind = "raiser" \/ cells[1].watchers[i].kind = "effect"

\* The value the sets h should have left in a cell created with 0.
LeftBy(h) == IF h = <<>> THEN PyInt(0) ELSE h[Len(h)].v

(***************************************************************************)
(* C37.  A set whose new value differs, on a cell with a watcher or effect *)
(* method that raises: the error reaches the caller, the cell holds the    *)
(* new value, the watchers registered before the raising one were called   *)
(* once and those after it not at all, and no message is posted; the next  *)
(* such set commits from the value this one left.  A set of an equal value *)
(* calls nothing and raises nothing.                                       *)
(***************************************************************************)
WatcherErrorLeavesValueCommitted ==
    /\ msgs["w1"] = <<>>
    /\ \A n \in DOMAIN hist :
          LET e == hist[n]
              found == LeftBy(SubSeq(hist, 1, n - 1))
              ws == cells[1].watchers
          IN /\ Equals(e.now, e.v)
             /\ IF Equals(found, e.v) THEN e.raised = "" /\ e.log = <<>>
                ELSE /\ e.raised # ""
                     /\ Len(About(e.log, "commit", 1)) = 1
                     /\ Equals(About(e.log, "commit", 1)[1].old, found)
                     /\ Equals(About(e.log, "commit", 1)[1].new, e.v)
                     /\ About(e.log, "post", 1) = <<>>
                     /\ \A i \in DOMAIN ws :
                           TimesCalled(e.log, ws[i]) = IF i <= RaiserAt THEN 1 ELSE 0

\* Two raising sets in a row, 0 -> 1 -> 2, with cbA before the watcher that
\* raises and cbB after it: the second commit starts at 1.
WatcherErrorLeavesValueCommittedWitness ==
    /\ Len(hist) = 2
    /\ hist[1].v = PyInt(1) /\ hist[2].v = PyInt(2)
    /\ hist[2].raised # ""
    /\ cells[1].watchers = <<Callback("cbA"), Raiser, Callback("cbB")>>
    /\ cells[1].value = PyInt(2)
    /\ About(hist[2].log, "commit", 1)[1].old = PyInt(1)
    /\ calls["cbA"] = 2 /\ calls["cbB"] = 0

(***************************************************************************)
(* SpecSync: w1 has made cells a and b with use_state, holding the same    *)
(* value; a has a watcher that sets b to the new value and b one that sets *)
(* a to it, and each has a callback, registered before or after.  The      *)
(* program sets either cell.  hist holds the last set: the cell, the value *)
(* passed and the value the cell held.                                     *)
(***************************************************************************)
SyncValues == ChainValues \cup {PyBool(TRUE)}

InitSync ==
    /\ \E v0 \in {PyInt(0), PyInt(1)} :
       \E oa \in Orders({Copy(2), Callback("cbA")}), ob \in Orders({Copy(1), Callback("cbB")}) :
          cells = watch_all(watch_all(use_state(use_state(<<>>, "w1", v0, NoName),
                                                "w1", v0, NoName),
                                      1, oa, 1),
                            2, ob, 1)
    /\ uses = [NoUses EXCEPT !["w1"] = <<Hook("use_state", 1), Hook("use_state", 2)>>]
    /\ provs = NoProviders
    /\ parent = Parent
    /\ InitRest

BSet(c, v) ==
    /\ nops < MaxOps
    /\ Commit(set(Cur, c, v))
    /\ nops' = nops + 1
    /\ last' = Call("set", c, v)
    /\ hist' = <<[cell |-> c, v |-> v, prev |-> cells[c].value, calls |-> calls, msgs |-> msgs]>>
    /\ UNCHANGED <<provs, parent, registry, raised, uses, due, dueMsg, dueEv>>

NextSync == \E c \in {1, 2}, v \in SyncValues : BSet(c, v)

SpecSync == InitSync /\ [][NextSync]_vars

(***************************************************************************)
(* C38.  After every set on a or b the two cells hold equal values, the    *)
(* value passed.  A set of a different value commits once on each cell,    *)
(* calls each cell's callback once and posts one message per cell; a set   *)
(* of an equal value does nothing.                                         *)
(***************************************************************************)
SyncSettlesInOneRound ==
    /\ Equals(cells[1].value, cells[2].value)
    /\ hist # <<>> =>
          LET e == hist[1] IN
          /\ Equals(cells[e.cell].value, e.v)
          /\ IF Equals(e.prev, e.v)
             THEN log = <<>> /\ calls = e.calls /\ msgs = e.msgs
             ELSE /\ \A c \in {1, 2} :
                       /\ Len(About(log, "commit", c)) = 1
                       /\ Equals(About(log, "commit", c)[1].old, e.prev)
                       /\ Equals(About(log, "commit", c)[1].new, e.v)
                       /\ Len(About(log, "post", c)) = 1
                  /\ calls["cbA"] = e.calls["cbA"] + 1
                  /\ calls["cbB"] = e.calls["cbB"] + 1
                  /\ Len(msgs["w1"]) = Len(e.msgs["w1"]) + 2

\* b.set(2) on cells holding 1, after earlier changes: both hold 2 and each
\* callback was called for it once.
SyncSettlesInOneRoundWitness ==
    /\ hist # <<>>
    /\ hist[1].cell = 2 /\ hist[1].v = PyInt(2) /\ hist[1].prev = PyInt(1)
    /\ cells[1].value = PyInt(2) /\ cells[2].value = PyInt(2)
    /\ cells[1].watchers = <<Copy(2), Callback("cbA")>>
    /\ hist[1].calls["cbA"] > 0
    /\ calls["cbA"] = hist[1].calls["cbA"] + 1
    /\ Len(About(log, "commit", 1)) = 1

(***************************************************************************)
(* SpecSilent: the mounted tree of SpecEffects.  w1 and w2 consume the     *)
(* store and the reducer context, each time with subscribe=True or         *)
(* subscribe=False, and actions are dispatched to both.  hist holds the    *)
(* consumptions: the widget, the cell and the subscribe argument.  No      *)
(* message is taken from a queue.                                          *)
(***************************************************************************)
Silent(w, c, sub, cs) ==
    /\ nops < MaxEffectOps
    /\ cells' = cs
    /\ nops' = nops + 1
    /\ log' = <<>>
    /\ last' = NoCall
    /\ hist' = Append(hist, [w |-> w, cell |-> c, sub |-> sub])
    /\ UNCHANGED <<msgs, calls, provs, parent, registry, raised, uses, due, dueMsg, dueEv>>

IStoreUse(w, sub) == Silent(w, 1, sub, Store_use(cells, provs, parent, w, "S1", sub))

IUseReducerContext(w, sub) ==
    Silent(w, 2, sub, use_reducer_context(cells, provs, parent, w, "RC1", sub))

NextSilent ==
    \/ \E w \in Consumers, sub \in BOOLEAN : IStoreUse(w, sub)
    \/ \E w \in Consumers, sub \in BOOLEAN : IUseReducerContext(w, sub)
    \/ \E c \in {1, 2}, action \in {"Increment", "Reset"} : EDispatch(c, action)

SpecSilent == InitEffects /\ [][NextSilent]_vars

\* The public effect methods w's own class declares for cell c: for the
\* store (cell 1) those that list S1, for the reducer (cell 2) those that
\* list its name, "count".
OwnMatching(w, c) ==
    CASE w = "w1" /\ c = 1 -> {"on_store"}
      [] w = "w1" /\ c = 2 -> {"on_count", "on_either"}
      [] w = "w2" /\ c = 2 -> {"on_base"}
      [] OTHER -> {}

ConsumedSilently(w, c) ==
    /\ \E n \in DOMAIN hist : hist[n].w = w /\ hist[n].cell = c
    /\ \A n \in DOMAIN hist : (hist[n].w = w /\ hist[n].cell = c) => ~hist[n].sub

(***************************************************************************)
(* C39.  A widget that has consumed the store or the reducer context only  *)
(* with subscribe=False is not among the cell's subscribers and has no     *)
(* message about the cell in its queue, and each of its matching effect    *)
(* methods is called during every dispatch that changes the cell.          *)
(***************************************************************************)
UnsubscribedConsumerKeepsEffects ==
    \A w \in Consumers, c \in {1, 2} :
        ConsumedSilently(w, c) =>
            /\ w \notin cells[c].subscribers
            /\ \A i \in DOMAIN msgs[w] : msgs[w][i].cell # c
            /\ About(log, "commit", c) # <<>> =>
                  \A m \in OwnMatching(w, c) : TimesCalled(log, EffectCall(w, m)) >= 1

\* w1 consumed the store with subscribe=False and w2 with subscribe=True; a
\* dispatch changed the store: w1's on_store was called, w1 got no message,
\* w2 got one.
UnsubscribedConsumerKeepsEffectsWitness ==
    /\ ConsumedSilently("w1", 1)
    /\ About(log, "commit", 1) # <<>>
    /\ TimesCalled(log, EffectCall("w1", "on_store")) = 1
    /\ msgs["w1"] = <<>>
    /\ msgs["w2"] # <<>>

====
